---- MODULE Spec2Model ----
(***************************************************************************)
(* Model of the identity/state-reconciliation core of sejong_dental_qr:    *)
(* the roster reader (io_excel.py, normalize.py), the id_map store         *)
(* (id_map.py), the change planner (planner.py) and the part of the build  *)
(* pipeline that chains them through id_map.csv (cli.py, _run_build).      *)
(*                                                                         *)
(* Text is modelled as a sequence of one-character strings, so that        *)
(* formatting (f"SJ{year % 100:02d}-", f"{n:04d}"), parsing (the regular   *)
(* expression of _max_existing_number), whitespace normalisation and the   *)
(* code-point order used by sorted() are computed, not assumed.  The       *)
(* status column and the column names are atomic strings; timestamps       *)
(* (ISO texts of second resolution) are natural numbers counting seconds.  *)
(*                                                                         *)
(* Specifications: Spec (builds chained through id_map.csv from an empty   *)
(* store), SpecMeta (builds on a store with metadata), SpecClock (builds   *)
(* that may share a second), SpecCalls (direct calls of normalize_name,    *)
(* read_clinic_records, load_id_map, update_id_map and build_changes on    *)
(* drawn arguments) and SpecOutbox (whole builds: pages, QR images,        *)
(* delivery folders and the outbox, with builds that end early).           *)
(***************************************************************************)
EXTENDS Integers, Sequences, FiniteSets, TLC

VARIABLES
    id_map_file,     \* id_map.csv: [exists, columns, rows]
    pc,              \* position of _run_build: "idle", "save", "plan", "done",
                     \* "rendered", "delivered", "finished", "failed"
    builds,          \* number of builds started so far
    clock,           \* wall clock (seconds) at the last call of _now_iso
    year,            \* cfg.year of the current build
    clinic_records,  \* result of read_clinic_records in the current build
    df_prev,         \* result of load_id_map in the current build
    df_next,         \* id_map_result.data
    new_ids,         \* id_map_result.new_ids
    changes,         \* result of build_changes
    error,           \* message kind of the exception main() logged, "" if none
    file_before,     \* history: id_map_file when the current build started
    assigned,        \* history: every <<clinic_id, clinic_name>> ever stored
    listed_at,       \* history: <<name, time of the latest build whose roster held it>>
    minted_in,       \* history: <<clinic_id, number of the build that minted it>>
    reported,        \* history: <<clinic_id, build number, change_type>> of every plan
    sent,            \* history: <<clinic_id, build number>> of every sendlist row
    skip_qr,         \* args.skip_qr of the current build
    cfg,             \* the generate_* switches of the configuration of the build
    mapping_records, \* the MappingRecord list of the current build
    outbox_result,   \* OutboxResult of the current build
    output,          \* the files under site_root and output_root
    arg,             \* direct call of a function of the core: its argument
    ret              \* direct call of a function of the core: what it returned

vars == <<id_map_file, pc, builds, clock, year, clinic_records, df_prev,
          df_next, new_ids, changes, error, file_before, assigned,
          listed_at, minted_in, reported, sent, skip_qr, cfg, mapping_records,
          outbox_result, output, arg, ret>>

\* The locals and files of the steps of _run_build after build_changes.
steps == <<skip_qr, cfg, mapping_records, outbox_result, output>>

----------------------------------------------------------------------------
(* Bounds of the model. *)

MaxBuilds == 3
MaxRows == 2
MaxText == 4

----------------------------------------------------------------------------
(* Text helpers: Python str operations on sequences of characters. *)

Range(s) == {s[i] : i \in 1..Len(s)}

\* The whitespace str.strip() and str.split() remove: space and tab stand for
\* the characters with str.isspace().
Whitespace == {" ", "\t"}

DigitChars == <<"0", "1", "2", "3", "4", "5", "6", "7", "8", "9">>

IsDigit(c) == \E d \in 1..10 : DigitChars[d] = c

DigitValue(c) == (CHOOSE d \in 1..10 : DigitChars[d] = c) - 1

\* ord(c) for the characters the model uses.
CharCode(c) ==
    CASE c = "\t" -> 9
      [] c = " " -> 32
      [] c = "-" -> 45
      [] IsDigit(c) -> 48 + DigitValue(c)
      [] c = "A" -> 65
      [] c = "B" -> 66
      [] c = "J" -> 74
      [] c = "S" -> 83
      [] OTHER -> 97

RECURSIVE lstrip(_)
lstrip(s) ==
    IF s # <<>> /\ Head(s) \in Whitespace THEN lstrip(Tail(s)) ELSE s

RECURSIVE rstrip(_)
rstrip(s) ==
    IF s # <<>> /\ s[Len(s)] \in Whitespace
    THEN rstrip(SubSeq(s, 1, Len(s) - 1))
    ELSE s

strip(s) == rstrip(lstrip(s))

\* str.split() without arguments: the maximal runs of non-whitespace.
RECURSIVE split(_)
split(s) ==
    LET t == lstrip(s)
        n == IF \E i \in 1..Len(t) : t[i] \in Whitespace
             THEN (CHOOSE i \in 1..Len(t) :
                      /\ t[i] \in Whitespace
                      /\ \A j \in 1..(i - 1) : t[j] \notin Whitespace) - 1
             ELSE Len(t)
    IN IF t = <<>> THEN <<>>
       ELSE <<SubSeq(t, 1, n)>> \o split(SubSeq(t, n + 1, Len(t)))

\* " ".join(words)
RECURSIVE join(_)
join(words) ==
    IF words = <<>> THEN <<>>
    ELSE IF Len(words) = 1 THEN words[1]
    ELSE words[1] \o <<" ">> \o join(Tail(words))

\* Python's a < b on str: code-point lexicographic order.
RECURSIVE StrLess(_, _)
StrLess(a, b) ==
    IF b = <<>> THEN FALSE
    ELSE IF a = <<>> THEN TRUE
    ELSE IF CharCode(Head(a)) # CharCode(Head(b))
         THEN CharCode(Head(a)) < CharCode(Head(b))
         ELSE StrLess(Tail(a), Tail(b))

\* sorted(S) for a set S of strings.
RECURSIVE sorted(_)
sorted(S) ==
    IF S = {} THEN <<>>
    ELSE LET m == CHOOSE x \in S : \A y \in S \ {x} : StrLess(x, y)
         IN <<m>> \o sorted(S \ {m})

\* str(n) for n >= 0.
RECURSIVE DecimalText(_)
DecimalText(n) ==
    IF n < 10 THEN <<DigitChars[n + 1]>>
    ELSE DecimalText(n \div 10) \o <<DigitChars[(n % 10) + 1]>>

\* f"{n:0<width>d}" for n >= 0: at least width digits, zero-padded on the left.
RECURSIVE ZeroPadTo(_, _)
ZeroPadTo(text, width) ==
    IF Len(text) >= width THEN text ELSE ZeroPadTo(<<"0">> \o text, width)

FormatD(n, width) == ZeroPadTo(DecimalText(n), width)

\* int(text) for a non-empty text of digits.
RECURSIVE ParseInt(_)
ParseInt(text) ==
    IF text = <<>> THEN 0
    ELSE 10 * ParseInt(SubSeq(text, 1, Len(text) - 1))
         + DigitValue(text[Len(text)])

----------------------------------------------------------------------------
(* normalize.py *)

\* Mutant: only the ends are trimmed.
StripOnly(raw) == strip(raw)

normalize_name(raw) == join(split(strip(raw)))

----------------------------------------------------------------------------
(* io_excel.py *)

\* A spreadsheet cell pandas read as NaN (an empty cell); it is no text.
NaN == <<"NaN">>

\* The columns cfg names: name_column, address_column, phone_column,
\* director_column, homepage_column.
RequiredColumns == {"name", "address", "phone", "director", "homepage"}

_is_nan(value) == value = NaN

_clean_text(value) == IF _is_nan(value) THEN <<>> ELSE strip(value)

\* Counter(values): the names that occur more than once.
_find_duplicates(values) ==
    {values[i] : i \in {k \in 1..Len(values) :
                          \E j \in 1..Len(values) : j # k /\ values[j] = values[k]}}

\* The for-loop of read_clinic_records: rows with a NaN or empty name are
\* dropped, the others become ClinicInput values, in row order.
RECURSIVE ClinicInputs(_)
ClinicInputs(rows) ==
    IF rows = <<>> THEN <<>>
    ELSE LET row == Head(rows)
             name == IF _is_nan(row.name) THEN <<>> ELSE normalize_name(row.name)
         IN IF name = <<>> THEN ClinicInputs(Tail(rows))
            ELSE <<[name |-> name,
                    address |-> _clean_text(row.address),
                    phone |-> _clean_text(row.phone),
                    director |-> _clean_text(row.director),
                    homepage |-> _clean_text(row.homepage)]>>
                 \o ClinicInputs(Tail(rows))

NamesOf(records) == [i \in 1..Len(records) |-> records[i].name]

\* Mutant: a repeated name is dropped silently, the first row wins.
RECURSIVE FirstOccurrences(_)
FirstOccurrences(records) ==
    IF records = <<>> THEN <<>>
    ELSE LET before == FirstOccurrences(SubSeq(records, 1, Len(records) - 1))
             last == records[Len(records)]
         IN IF \E i \in 1..Len(before) : before[i].name = last.name
            THEN before ELSE Append(before, last)

ReadKeepingFirstOccurrence(excel) ==
    IF RequiredColumns \ excel.columns # {}
    THEN [ok |-> FALSE, error |-> "Missing required column(s)", records |-> <<>>]
    ELSE [ok |-> TRUE, error |-> "",
          records |-> FirstOccurrences(ClinicInputs(excel.rows))]

\* Result of read_clinic_records: the records, or the ValueError it raises.
read_clinic_records(excel) ==
    LET records == ClinicInputs(excel.rows)
    IN IF RequiredColumns \ excel.columns # {}
       THEN [ok |-> FALSE, error |-> "Missing required column(s)", records |-> <<>>]
       ELSE IF _find_duplicates(NamesOf(records)) # {}
       THEN [ok |-> FALSE, error |-> "Duplicate clinic names after normalization",
             records |-> <<>>]
       ELSE [ok |-> TRUE, error |-> "", records |-> records]

----------------------------------------------------------------------------
(* id_map.py *)

CORE_COLUMNS == {"clinic_id", "clinic_name", "status", "first_seen_at", "last_seen_at"}

EXTRA_COLUMNS == {"address", "phone", "director", "homepage"}

COLUMNS == CORE_COLUMNS \cup EXTRA_COLUMNS

EmptyFrame == [columns |-> COLUMNS, rows |-> <<>>]

NoFile == [exists |-> FALSE, columns |-> {}, rows |-> <<>>]

\* A row read from a frame that lacks an optional column holds "" there.
FillExtra(row, columns) ==
    [row EXCEPT !.address = IF "address" \in columns THEN @ ELSE <<>>,
                !.phone = IF "phone" \in columns THEN @ ELSE <<>>,
                !.director = IF "director" \in columns THEN @ ELSE <<>>,
                !.homepage = IF "homepage" \in columns THEN @ ELSE <<>>]

\* Mutant: a file without one of the optional columns is refused as well.
LoadRequiringEveryColumn(file) ==
    IF ~file.exists THEN [ok |-> TRUE, error |-> "", df |-> EmptyFrame]
    ELSE IF COLUMNS \ file.columns # {}
    THEN [ok |-> FALSE, error |-> "id_map is missing required columns", df |-> EmptyFrame]
    ELSE [ok |-> TRUE, error |-> "", df |-> [columns |-> COLUMNS, rows |-> file.rows]]

\* Result of load_id_map: the frame, or the ValueError it raises.  Every cell
\* is read as text (dtype=str, keep_default_na=False).
load_id_map(file) ==
    IF ~file.exists THEN [ok |-> TRUE, error |-> "", df |-> EmptyFrame]
    ELSE IF CORE_COLUMNS \ file.columns # {}
    THEN [ok |-> FALSE, error |-> "id_map is missing required columns", df |-> EmptyFrame]
    ELSE [ok |-> TRUE, error |-> "",
          df |-> [columns |-> COLUMNS,
                  rows |-> [i \in 1..Len(file.rows) |->
                               FillExtra(file.rows[i], file.columns)]]]

\* The file save_id_map writes: header and one line per row.
save_id_map(df) == [exists |-> TRUE, columns |-> df.columns, rows |-> df.rows]

\* _ensure_columns adds the missing optional columns to the frame in place.
\* Mutant: every optional column is set to "", not only the missing ones.
EnsureColumnsBlankingAll(df) ==
    [columns |-> df.columns \cup EXTRA_COLUMNS,
     rows |-> [i \in 1..Len(df.rows) |-> FillExtra(df.rows[i], {})]]

_ensure_columns(df) ==
    [columns |-> df.columns \cup EXTRA_COLUMNS,
     rows |-> [i \in 1..Len(df.rows) |-> FillExtra(df.rows[i], df.columns)]]

ColumnOf(df, col) ==
    [i \in 1..Len(df.rows) |->
        CASE col = "clinic_id" -> df.rows[i].clinic_id
          [] col = "clinic_name" -> df.rows[i].clinic_name
          [] OTHER -> df.rows[i].status]

\* Mutant: only the ACTIVE records are checked for a repeated clinic_name.
DuplicateActiveNames(df) ==
    \E i, j \in 1..Len(df.rows) :
        /\ i # j
        /\ df.rows[i].clinic_name = df.rows[j].clinic_name
        /\ df.rows[i].status = "ACTIVE"
        /\ df.rows[j].status = "ACTIVE"

\* df["clinic_name"].duplicated().any()
_check_duplicate_names(df) == _find_duplicates(ColumnOf(df, "clinic_name")) # {}

\* Mutant: the year is written without zero padding.
PrefixUnpadded(yr) == <<"S", "J">> \o DecimalText(yr % 100) \o <<"-">>

\* f"SJ{year % 100:02d}-"
Prefix(yr) == <<"S", "J">> \o FormatD(yr % 100, 2) \o <<"-">>

\* f"{prefix}{max_number:04d}"
FormatClinicId(prefix, number) == prefix \o FormatD(number, 4)

\* pattern.match(clinic_id.strip()) for re.escape(prefix) + r"(\d+)$":
\* the suffix when the stripped id is the prefix followed by digits only.
MatchesPrefix(clinic_id, prefix) ==
    LET s == strip(clinic_id)
    IN /\ Len(s) > Len(prefix)
       /\ SubSeq(s, 1, Len(prefix)) = prefix
       /\ \A i \in (Len(prefix) + 1)..Len(s) : IsDigit(s[i])

SuffixNumber(clinic_id, prefix) ==
    LET s == strip(clinic_id)
    IN ParseInt(SubSeq(s, Len(prefix) + 1, Len(s)))

Max(S) == IF S = {} THEN 0 ELSE CHOOSE m \in S : \A n \in S : n <= m

\* Mutant: the suffix of every id counts, whatever year its prefix names.
MaxNumberOfAnyPrefix(clinic_ids, prefix) ==
    Max({0} \cup {ParseInt(SubSeq(strip(clinic_ids[i]), Len(prefix) + 1,
                                   Len(strip(clinic_ids[i])))) :
                    i \in {k \in 1..Len(clinic_ids) :
                             Len(strip(clinic_ids[k])) > Len(prefix)}})

\* Mutant: only suffixes of exactly four digits count.
MaxNumberOfFourDigitIds(clinic_ids, prefix) ==
    Max({0} \cup {SuffixNumber(clinic_ids[i], prefix) :
                    i \in {k \in 1..Len(clinic_ids) :
                             /\ MatchesPrefix(clinic_ids[k], prefix)
                             /\ Len(strip(clinic_ids[k])) = Len(prefix) + 4}})

\* Mutant: the scan stops at the first id that matches the prefix.
MaxNumberOfFirstMatch(clinic_ids, prefix) ==
    LET hits == {k \in 1..Len(clinic_ids) : MatchesPrefix(clinic_ids[k], prefix)}
    IN IF hits = {} THEN 0
       ELSE SuffixNumber(clinic_ids[CHOOSE k \in hits : \A j \in hits : k <= j], prefix)

_max_existing_number(clinic_ids, prefix) ==
    Max({0} \cup {SuffixNumber(clinic_ids[i], prefix) :
                    i \in {k \in 1..Len(clinic_ids) :
                             MatchesPrefix(clinic_ids[k], prefix)}})

\* Mutant: the incoming value always replaces the stored one.
MergeFieldOverwrites(new_value, old_value) == new_value

_merge_field(new_value, old_value) ==
    IF new_value # <<>> THEN new_value ELSE old_value

\* record_by_name.get(name): whether the input holds the name, and its record.
HasRecord(records, name) == \E i \in 1..Len(records) : records[i].name = name

RecordOf(records, name) ==
    records[CHOOSE i \in 1..Len(records) :
               /\ records[i].name = name
               /\ \A j \in (i + 1)..Len(records) : records[j].name # name]

\* status = "ACTIVE" if record else "INACTIVE"
StatusFor(records, name) == IF HasRecord(records, name) THEN "ACTIVE" ELSE "INACTIVE"

\* Mutant: a row whose name is absent from the input keeps its stored status.
UpdatedRowKeepsStatus(row, records, now) ==
    [row EXCEPT !.status = IF HasRecord(records, row.clinic_name) THEN "ACTIVE" ELSE @,
                !.last_seen_at = IF HasRecord(records, row.clinic_name) THEN now ELSE @]

\* Mutant: every row of existing_df gets the build time as last_seen_at.
UpdatedRowTouchesLastSeen(row, records, now) ==
    [row EXCEPT !.status = StatusFor(records, row.clinic_name),
                !.last_seen_at = now]

\* Mutant: a row whose name is absent from the input loses its metadata.
UpdatedRowClearsAbsent(row, records, now) ==
    IF HasRecord(records, row.clinic_name)
    THEN [row EXCEPT !.status = "ACTIVE", !.last_seen_at = now]
    ELSE [row EXCEPT !.status = "INACTIVE", !.address = <<>>, !.phone = <<>>,
                     !.director = <<>>, !.homepage = <<>>]

\* Mutant: a row that comes back into the roster gets a fresh first_seen_at.
UpdatedRowResetsFirstSeen(row, records, now) ==
    [row EXCEPT !.status = StatusFor(records, row.clinic_name),
                !.first_seen_at = IF HasRecord(records, row.clinic_name)
                                     /\ row.status = "INACTIVE" THEN now ELSE @,
                !.last_seen_at = IF HasRecord(records, row.clinic_name) THEN now ELSE @]

\* One iteration of the loop over existing_df.iterrows().
UpdatedRow(row, records, now) ==
    LET name == row.clinic_name
        status == StatusFor(records, name)
        found == HasRecord(records, name)
    IN [clinic_id |-> row.clinic_id,
        clinic_name |-> name,
        status |-> status,
        first_seen_at |-> row.first_seen_at,
        last_seen_at |-> IF status = "ACTIVE" THEN now ELSE row.last_seen_at,
        address |-> _merge_field(IF found THEN RecordOf(records, name).address
                                 ELSE <<>>, row.address),
        phone |-> _merge_field(IF found THEN RecordOf(records, name).phone
                               ELSE <<>>, row.phone),
        director |-> _merge_field(IF found THEN RecordOf(records, name).director
                                  ELSE <<>>, row.director),
        homepage |-> _merge_field(IF found THEN RecordOf(records, name).homepage
                                  ELSE <<>>, row.homepage)]

\* Mutant: only the ACTIVE rows of existing_df count as known names.
NewNamesIgnoringInactive(records, existing_df) ==
    sorted(Range(NamesOf(records))
           \ {existing_df.rows[i].clinic_name :
                 i \in {k \in 1..Len(existing_df.rows) :
                          existing_df.rows[k].status = "ACTIVE"}})

\* Mutant: the new names are taken in input order, not sorted.
RECURSIVE InInputOrder(_, _)
InInputOrder(names, known) ==
    IF names = <<>> THEN <<>>
    ELSE IF Head(names) \in known THEN InInputOrder(Tail(names), known)
    ELSE <<Head(names)>> \o InInputOrder(Tail(names), known)

NewNamesUnsorted(records, existing_df) ==
    InInputOrder(NamesOf(records), Range(ColumnOf(existing_df, "clinic_name")))

\* Mutant: the names of the store are not subtracted.
NewNamesOfWholeInput(records, existing_df) ==
    sorted(Range(NamesOf(records)))

\* new_names = sorted(active_names - existing_names)
NewNames(records, existing_df) ==
    sorted(Range(NamesOf(records)) \ Range(ColumnOf(existing_df, "clinic_name")))

\* The row appended for the k-th new name.
NewRow(record, clinic_id, now) ==
    [clinic_id |-> clinic_id,
     clinic_name |-> record.name,
     status |-> "ACTIVE",
     first_seen_at |-> now,
     last_seen_at |-> now,
     address |-> record.address,
     phone |-> record.phone,
     director |-> record.director,
     homepage |-> record.homepage]

\* Mutant: max_number is incremented once, not once per new name.
MintedIdsWithoutIncrement(new_names, prefix, max_number) ==
    [k \in 1..Len(new_names) |-> FormatClinicId(prefix, max_number + 1)]

\* new_ids: max_number += 1 before each mint.
MintedIds(new_names, prefix, max_number) ==
    [k \in 1..Len(new_names) |-> FormatClinicId(prefix, max_number + k)]

\* Result of update_id_map: IdMapResult(data, new_ids), or the ValueError it
\* raises; existing is existing_df as _ensure_columns left it.
update_id_map(records, yr, existing_df, now) ==
    LET failed(msg) == [ok |-> FALSE, error |-> msg, data |-> EmptyFrame,
                        new_ids |-> <<>>, existing |-> existing_df]
        df == _ensure_columns(existing_df)
        prefix == Prefix(yr)
        max_number == _max_existing_number(ColumnOf(df, "clinic_id"), prefix)
        new_names == NewNames(records, df)
        ids == MintedIds(new_names, prefix, max_number)
        updated_rows == [i \in 1..Len(df.rows) |-> UpdatedRow(df.rows[i], records, now)]
        new_rows == [k \in 1..Len(new_names) |->
                        NewRow(RecordOf(records, new_names[k]), ids[k], now)]
    IN IF Len(records) # Cardinality(Range(NamesOf(records)))
       THEN failed("Duplicate clinic names provided to update_id_map")
       ELSE IF CORE_COLUMNS \ existing_df.columns # {}
       THEN failed("id_map is missing required columns")
       ELSE IF _check_duplicate_names(df)
       THEN [failed("id_map has duplicate clinic names") EXCEPT !.existing = df]
       ELSE [ok |-> TRUE, error |-> "",
             data |-> [columns |-> COLUMNS, rows |-> updated_rows \o new_rows],
             new_ids |-> ids, existing |-> df]

----------------------------------------------------------------------------
(* planner.py *)

\* lookup[key] = entry on a dict kept as a sequence in insertion order: an
\* existing key keeps its position and takes the new value.
DictPut(lookup, entry) ==
    IF \E i \in 1..Len(lookup) : lookup[i].clinic_id = entry.clinic_id
    THEN [i \in 1..Len(lookup) |->
             IF lookup[i].clinic_id = entry.clinic_id THEN entry ELSE lookup[i]]
    ELSE Append(lookup, entry)

\* str(row.get("status", "")).strip() on the status values of the model.
StripStatus(status) ==
    CASE status = " ACTIVE " -> "ACTIVE"
      [] status = " INACTIVE " -> "INACTIVE"
      [] OTHER -> status

\* _to_lookup over a sequence of rows; rows with an empty clinic_id are skipped.
RECURSIVE LookupOfRows(_)
LookupOfRows(rows) ==
    IF rows = <<>> THEN <<>>
    ELSE LET row == rows[Len(rows)]
             before == LookupOfRows(SubSeq(rows, 1, Len(rows) - 1))
         IN IF strip(row.clinic_id) = <<>> THEN before
            ELSE DictPut(before, [clinic_id |-> strip(row.clinic_id),
                                  clinic_name |-> strip(row.clinic_name),
                                  status |-> StripStatus(row.status)])

_to_lookup(df) == LookupOfRows(df.rows)

HasKey(lookup, clinic_id) == \E i \in 1..Len(lookup) : lookup[i].clinic_id = clinic_id

Get(lookup, clinic_id) ==
    lookup[CHOOSE i \in 1..Len(lookup) : lookup[i].clinic_id = clinic_id]

\* Mutant: the change is read off the next status alone.
TransitionByNextStatus(prev_status, next_status) ==
    IF next_status = "INACTIVE" THEN "DEACTIVATED"
    ELSE IF prev_status = "INACTIVE" THEN "REACTIVATED"
    ELSE "UNCHANGED"

\* Mutant: a clinic that comes back is reported like a first appearance.
TransitionReactivatedAsNew(prev_status, next_status) ==
    IF prev_status = "ACTIVE" /\ next_status = "INACTIVE" THEN "DEACTIVATED"
    ELSE IF prev_status = "INACTIVE" /\ next_status = "ACTIVE" THEN "NEW"
    ELSE "UNCHANGED"

\* The if/elif/else of build_changes for an id present in both lookups.
Transition(prev_status, next_status) ==
    IF prev_status = "ACTIVE" /\ next_status = "INACTIVE" THEN "DEACTIVATED"
    ELSE IF prev_status = "INACTIVE" /\ next_status = "ACTIVE" THEN "REACTIVATED"
    ELSE "UNCHANGED"

ChangeType(prev_lookup, next_row) ==
    IF ~HasKey(prev_lookup, next_row.clinic_id) THEN "NEW"
    ELSE Transition(Get(prev_lookup, next_row.clinic_id).status, next_row.status)

\* Mutant: an id that is only in the previous snapshot is reported as well.
BuildChangesWithRemoved(prev, next) ==
    LET prev_lookup == _to_lookup(prev)
        next_lookup == _to_lookup(next)
        all == next_lookup
               \o SelectSeq(prev_lookup, LAMBDA e : ~HasKey(next_lookup, e.clinic_id))
    IN [i \in 1..Len(all) |->
           [clinic_id |-> all[i].clinic_id,
            clinic_name |-> all[i].clinic_name,
            change_type |-> IF HasKey(next_lookup, all[i].clinic_id)
                            THEN ChangeType(prev_lookup, all[i])
                            ELSE "DEACTIVATED"]]

build_changes(prev, next) ==
    LET prev_lookup == _to_lookup(prev)
        next_lookup == _to_lookup(next)
    IN [i \in 1..Len(next_lookup) |->
           [clinic_id |-> next_lookup[i].clinic_id,
            clinic_name |-> next_lookup[i].clinic_name,
            change_type |-> ChangeType(prev_lookup, next_lookup[i])]]

----------------------------------------------------------------------------
(* The inputs of a build: the roster spreadsheet, cfg.year and the clock. *)

RawNames == {<<"A">>, <<" ", "A">>, <<"A", "B">>, <<"B">>, <<" ">>}

MetaX == [address |-> <<"x">>, phone |-> <<"p">>, director |-> NaN, homepage |-> <<"h">>]

RawRows(names, metas) ==
    {[name |-> n, address |-> m.address, phone |-> m.phone,
      director |-> m.director, homepage |-> m.homepage] : n \in names, m \in metas}

\* The sheets with every configured column and at most n of the given rows,
\* and a sheet that lacks the phone column.
Sheets(rows, n) ==
    {[columns |-> RequiredColumns, rows |-> r] :
        r \in UNION {[1..k -> rows] : k \in 0..n}}
    \cup {[columns |-> RequiredColumns \ {"phone"}, rows |-> <<>>]}

Excels == Sheets(RawRows(RawNames, {MetaX}), MaxRows)

\* What read_clinic_records returns or raises on the sheets of Excels.
ReadResults == {read_clinic_records(excel) : excel \in Excels}

Years == {2025, 2105}

----------------------------------------------------------------------------
(* cli.py: main and _run_build, one build after another on one id_map.csv. *)

Pairs(rows) == {<<rows[i].clinic_id, rows[i].clinic_name>> : i \in 1..Len(rows)}

\* The switches of AppConfig the steps after build_changes read, with their
\* defaults.
DefaultConfig ==
    [generate_qr_named |-> TRUE, generate_delivery |-> TRUE, generate_outbox |-> TRUE]

\* outbox_result: OutboxResult | None = None
NoOutbox == [made |-> FALSE, targets |-> 0, zips_created |-> 0]

\* site_root and output_root before the first build: no page, no QR image,
\* no delivery folder, no report and no outbox.
EmptyOutput ==
    [pages |-> {}, qr |-> {}, delivery |-> {}, mapping |-> <<>>,
     changes |-> <<>>, sendlist |-> <<>>, zips |-> {}]

\* A process that has not reached the steps after build_changes.
StepsInit ==
    /\ skip_qr = FALSE
    /\ cfg = DefaultConfig
    /\ mapping_records = <<>>
    /\ outbox_result = NoOutbox
    /\ output = EmptyOutput

HistoryInit ==
    /\ minted_in = {}
    /\ reported = {}
    /\ sent = {}

Init ==
    /\ id_map_file = NoFile
    /\ pc = "idle"
    /\ builds = 0
    /\ clock = 1
    /\ year = 0
    /\ clinic_records = <<>>
    /\ df_prev = EmptyFrame
    /\ df_next = EmptyFrame
    /\ new_ids = <<>>
    /\ changes = <<>>
    /\ error = ""
    /\ file_before = NoFile
    /\ assigned = {}
    /\ listed_at = {}
    /\ HistoryInit
    /\ StepsInit
    /\ arg = <<>>
    /\ ret = <<>>

\* _run_build, lines 60-75, on one outcome of read_clinic_records (read),
\* one cfg.year (yr) and with tick seconds passed since the last call of
\* _now_iso: load_id_map and update_id_map.  An exception leaves _run_build.
ReconcileLocals(read, yr, tick) ==
    \E loaded \in {load_id_map(id_map_file)} :
       \E result \in {update_id_map(read.records, yr, loaded.df, clock + tick)} :
          LET msg == IF ~read.ok THEN read.error
                     ELSE IF ~loaded.ok THEN loaded.error
                     ELSE result.error
          IN /\ error' = msg
             /\ pc' = IF msg = "" THEN "save" ELSE "failed"
             /\ builds' = IF msg = "" THEN builds + 1 ELSE builds
             /\ clock' = IF msg = "" THEN clock + tick ELSE clock
             /\ year' = IF msg = "" THEN yr ELSE 0
             /\ clinic_records' = IF msg = "" THEN read.records ELSE <<>>
             /\ df_prev' = IF msg = "" THEN result.existing ELSE EmptyFrame
             /\ df_next' = IF msg = "" THEN result.data ELSE EmptyFrame
             /\ new_ids' = IF msg = "" THEN result.new_ids ELSE <<>>
             /\ changes' = <<>>
             /\ file_before' = id_map_file
             /\ listed_at' = IF msg # "" THEN listed_at
                              ELSE {p \in listed_at : p[1] \notin Range(NamesOf(read.records))}
                                   \cup {<<n, clock + tick>> : n \in Range(NamesOf(read.records))}
             /\ minted_in' = IF msg # "" THEN minted_in
                           ELSE minted_in \cup {<<result.new_ids[k], builds + 1>> :
                                                k \in 1..Len(result.new_ids)}
             /\ UNCHANGED <<assigned, reported, sent, steps, arg, ret>>

\* Mutant: the loaded mapping is written back before the roster is validated.
ReconcileWritingBack(reads, years, ticks) ==
    /\ pc = "idle"
    /\ builds < MaxBuilds
    /\ \E read \in reads, yr \in years, tick \in ticks : ReconcileLocals(read, yr, tick)
    /\ id_map_file' = save_id_map(load_id_map(id_map_file).df)

\* _run_build up to line 75; nothing before line 76 writes id_map.csv.
\* reads: the outcomes of read_clinic_records the build may see; years: the
\* values of cfg.year; ticks: the seconds that may have passed.
Reconcile(reads, years, ticks) ==
    /\ pc = "idle"
    /\ builds < MaxBuilds
    /\ \E read \in reads, yr \in years, tick \in ticks : ReconcileLocals(read, yr, tick)
    /\ UNCHANGED id_map_file

\* _run_build, line 76: save_id_map(df_next, cfg.id_map_path).
Save ==
    /\ pc = "save"
    /\ id_map_file' = save_id_map(df_next)
    /\ assigned' = assigned \cup Pairs(df_next.rows)
    /\ pc' = "plan"
    /\ UNCHANGED <<builds, clock, year, clinic_records, df_prev, df_next,
                   new_ids, changes, error, file_before, listed_at, minted_in,
                   reported, sent, steps, arg, ret>>

\* _run_build, line 78: changes = build_changes(df_prev, df_next); the steps
\* after it read df_next and changes and do not touch id_map.csv.
Plan ==
    /\ pc = "plan"
    /\ changes' = build_changes(df_prev, df_next)
    /\ reported' = reported \cup {<<changes'[i].clinic_id, builds, changes'[i].change_type>> :
                                    i \in 1..Len(changes')}
    /\ pc' = "done"
    /\ UNCHANGED <<id_map_file, builds, clock, year, clinic_records, df_prev,
                   df_next, new_ids, error, file_before, assigned, listed_at,
                   minted_in, sent, steps, arg, ret>>

\* main returns (0 after _run_build, 1 after logging an exception) and the
\* process ends: id_map.csv and the files written so far outlive the build.
Return(positions) ==
    /\ pc \in positions
    /\ pc' = "idle"
    /\ year' = 0
    /\ clinic_records' = <<>>
    /\ df_prev' = EmptyFrame
    /\ df_next' = EmptyFrame
    /\ new_ids' = <<>>
    /\ changes' = <<>>
    /\ error' = ""
    /\ file_before' = id_map_file
    /\ skip_qr' = FALSE
    /\ cfg' = DefaultConfig
    /\ mapping_records' = <<>>
    /\ outbox_result' = NoOutbox
    /\ UNCHANGED <<id_map_file, builds, clock, assigned, listed_at, minted_in,
                   reported, sent, output, arg, ret>>

\* The build ends after build_changes: the steps after it are not part of
\* Spec, SpecMeta and SpecClock.
Exit == Return({"done", "failed"})

\* In Spec one second passes between two calls of _now_iso, so every build
\* has a timestamp of its own; builds that share a second are not in Spec.
Next == Reconcile(ReadResults, Years, {1}) \/ Save \/ Plan \/ Exit

Spec == Init /\ [][Next]_vars

\* The sheets of the metadata runs: at most MaxRows rows for clinic A, each
\* optional cell either empty (NaN) or a text.
MetaCells ==
    {[address |-> a, phone |-> p, director |-> d, homepage |-> h] :
        a \in {NaN, <<"x">>}, p \in {NaN, <<"p">>},
        d \in {NaN, <<"d">>}, h \in {<<" ">>, <<"h">>}}

MetaReadResults ==
    {read_clinic_records(excel) :
        excel \in Sheets(RawRows({<<"A">>}, MetaCells), MaxRows)}

\* The texts a stored optional field may hold after earlier builds.
StoredTexts == {<<>>, <<"u">>}

\* id_map.csv after two earlier builds: A (ACTIVE) with any stored metadata,
\* B (INACTIVE since the second build) with metadata of its own.
MetaFiles ==
    {[exists |-> TRUE, columns |-> COLUMNS,
      rows |-> <<[clinic_id |-> FormatClinicId(Prefix(2025), 1),
                  clinic_name |-> <<"A">>, status |-> "ACTIVE",
                  first_seen_at |-> 1, last_seen_at |-> 2,
                  address |-> a, phone |-> p, director |-> d, homepage |-> h],
                 [clinic_id |-> FormatClinicId(Prefix(2025), 2),
                  clinic_name |-> <<"B">>, status |-> "INACTIVE",
                  first_seen_at |-> 1, last_seen_at |-> 1,
                  address |-> <<"w">>, phone |-> <<>>, director |-> <<"w">>,
                  homepage |-> <<>>]>>] :
        a \in StoredTexts, p \in StoredTexts, d \in StoredTexts, h \in StoredTexts}

InitMeta ==
    /\ id_map_file \in MetaFiles
    /\ pc = "idle"
    /\ builds = 0
    /\ clock = 2
    /\ year = 0
    /\ clinic_records = <<>>
    /\ df_prev = EmptyFrame
    /\ df_next = EmptyFrame
    /\ new_ids = <<>>
    /\ changes = <<>>
    /\ error = ""
    /\ file_before = id_map_file
    /\ assigned = Pairs(id_map_file.rows)
    /\ listed_at = {<<id_map_file.rows[i].clinic_name, id_map_file.rows[i].last_seen_at>> :
                       i \in 1..Len(id_map_file.rows)}
    /\ HistoryInit
    /\ StepsInit
    /\ arg = <<>>
    /\ ret = <<>>

NextMeta == Reconcile(MetaReadResults, {2025}, {1}) \/ Save \/ Plan \/ Exit

\* Builds on a store with populated metadata, the roster varying only in the
\* optional cells of clinic A.
SpecMeta == InitMeta /\ [][NextMeta]_vars

\* The rosters of the builds that may share a second: clinics A and B.
ClockReadResults ==
    {read_clinic_records(excel) :
        excel \in Sheets(RawRows({<<"A">>, <<"B">>}, {MetaX}), MaxRows)}

\* _now_iso has a resolution of one second (replace(microsecond=0)): the
\* build may run in the second of the build before it, or a second later.
NextClock == Reconcile(ClockReadResults, {2025}, {0, 1}) \/ Save \/ Plan \/ Exit

SpecClock == Init /\ [][NextClock]_vars

----------------------------------------------------------------------------
(* utils.py *)

SlugChar(c) ==
    CASE c = "A" -> "a"
      [] c = "B" -> "b"
      [] c = " " -> "-"
      [] OTHER -> c

\* slugify_name: slugify(name) puts the words in lower case with "-" between
\* them; an empty slug becomes "clinic".
slugify_name(name) ==
    LET words == join(split(name))
        value == [i \in 1..Len(words) |-> SlugChar(words[i])]
    IN IF value = <<>> THEN <<"c", "l", "i", "n", "i", "c">> ELSE value

----------------------------------------------------------------------------
(* cli.py: the steps of _run_build after build_changes. *)

\* str.upper() on the status values of the model.
upper(status) ==
    CASE status = "active" -> "ACTIVE"
      [] status = "Inactive" -> "INACTIVE"
      [] OTHER -> status

\* site_root / cfg.path_prefix / clinic_id / "index.html"
PagePath(clinic_id) == <<"page", clinic_id>>

\* f"{url_prefix}{clinic_id}/", with cfg.base_url set
Url(clinic_id) == <<"url", clinic_id>>

\* qr_root / f"{clinic_id}.png" and qr_root / f"{clinic_id}_named.png"
QrPath(clinic_id) == <<"qr", clinic_id>>

QrNamedPath(clinic_id) == <<"qr_named", clinic_id>>

\* Mutant: the QR image is made for every record, whatever its status.
MappingRecordWithQrForAll(row, skip, config) ==
    [clinic_name |-> row.clinic_name, clinic_id |-> row.clinic_id,
     status |-> upper(row.status), address |-> row.address, phone |-> row.phone,
     director |-> row.director, homepage |-> row.homepage,
     url |-> Url(row.clinic_id), page_path |-> PagePath(row.clinic_id),
     qr_path |-> IF ~skip THEN QrPath(row.clinic_id) ELSE <<>>,
     qr_named_path |-> IF ~skip /\ config.generate_qr_named
                       THEN QrNamedPath(row.clinic_id) ELSE <<>>]

\* The MappingRecord the loop over df_next appends for a row; a path is ""
\* (here <<>>) when the image is not made.
MappingRecordOf(row, skip, config) ==
    LET status == upper(row.status)
        with_qr == status = "ACTIVE" /\ ~skip
    IN [clinic_name |-> row.clinic_name, clinic_id |-> row.clinic_id,
        status |-> status, address |-> row.address, phone |-> row.phone,
        director |-> row.director, homepage |-> row.homepage,
        url |-> Url(row.clinic_id), page_path |-> PagePath(row.clinic_id),
        qr_path |-> IF with_qr THEN QrPath(row.clinic_id) ELSE <<>>,
        qr_named_path |-> IF with_qr /\ config.generate_qr_named
                          THEN QrNamedPath(row.clinic_id) ELSE <<>>]

\* The configurations and flags of the builds: the default configuration
\* with and without --skip-qr, and the default with one switch off.
Runs ==
    {[skip |-> s, config |-> DefaultConfig] : s \in BOOLEAN}
    \cup {[skip |-> FALSE, config |-> [DefaultConfig EXCEPT !.generate_qr_named = FALSE]],
          [skip |-> FALSE, config |-> [DefaultConfig EXCEPT !.generate_delivery = FALSE]],
          [skip |-> FALSE, config |-> [DefaultConfig EXCEPT !.generate_outbox = FALSE]]}

\* _run_build, lines 80-164: the page of every row of df_next, the QR images
\* of the ACTIVE rows, mapping.csv and changes.csv.  Pages and images of
\* earlier builds stay where they are.
Render(runs) ==
    /\ pc = "done"
    /\ \E run \in runs :
          /\ skip_qr' = run.skip
          /\ cfg' = run.config
          /\ mapping_records' =
                [i \in 1..Len(df_next.rows) |->
                    MappingRecordOf(df_next.rows[i], run.skip, run.config)]
    /\ output' = [output EXCEPT
                    !.pages = @ \cup {mapping_records'[i].page_path :
                                        i \in 1..Len(mapping_records')},
                    !.qr = (@ \cup {mapping_records'[i].qr_path :
                                      i \in 1..Len(mapping_records')}
                              \cup {mapping_records'[i].qr_named_path :
                                      i \in 1..Len(mapping_records')}) \ {<<>>},
                    !.mapping = mapping_records',
                    !.changes = changes]
    /\ pc' = "rendered"
    /\ UNCHANGED <<id_map_file, builds, clock, year, clinic_records, df_prev,
                   df_next, new_ids, changes, error, file_before, assigned,
                   listed_at, minted_in, reported, sent, outbox_result, arg, ret>>

----------------------------------------------------------------------------
(* delivery.py *)

_is_active(status) == upper(status) = "ACTIVE"

\* f"{record.clinic_id}_{slug}" under output_root / "delivery"
DeliveryDir(record) == <<record.clinic_id, slugify_name(record.clinic_name)>>

\* create_delivery_packages(cfg, records): files are the images on disk and
\* delivery the files under output_root / "delivery"; the folders of earlier
\* builds are kept (mkdir(exist_ok=True)).  A record that raises leaves the
\* folders made before it.
RECURSIVE create_delivery_packages(_, _, _)
create_delivery_packages(records, files, delivery) ==
    IF records = <<>> THEN [ok |-> TRUE, error |-> "", delivery |-> delivery]
    ELSE LET record == Head(records)
             dir == DeliveryDir(record)
             named == IF record.qr_named_path # <<>> /\ record.qr_named_path \in files
                      THEN {<<dir, "qr_named.png">>} ELSE {}
         IN IF ~_is_active(record.status)
            THEN create_delivery_packages(Tail(records), files, delivery)
            ELSE IF record.qr_path = <<>>
            THEN [ok |-> FALSE, error |-> "Missing qr_path for ACTIVE clinic",
                  delivery |-> delivery]
            ELSE IF record.qr_path \notin files
            THEN [ok |-> FALSE, error |-> "No such file or directory",
                  delivery |-> delivery]
            ELSE create_delivery_packages(
                     Tail(records), files,
                     delivery \cup {<<dir, "qr.png">>, <<dir, "info.txt">>} \cup named)

\* _run_build, lines 166-170.
Deliver ==
    /\ pc = "rendered"
    /\ IF cfg.generate_delivery /\ ~skip_qr
       THEN \E result \in {create_delivery_packages(mapping_records, output.qr,
                                                    output.delivery)} :
               /\ output' = [output EXCEPT !.delivery = result.delivery]
               /\ pc' = IF result.ok THEN "delivered" ELSE "failed"
               /\ error' = result.error
       ELSE /\ pc' = "delivered"
            /\ UNCHANGED <<output, error>>
    /\ UNCHANGED <<id_map_file, builds, clock, year, clinic_records, df_prev,
                   df_next, new_ids, changes, file_before, assigned, listed_at,
                   minted_in, reported, sent, skip_qr, cfg, mapping_records,
                   outbox_result, arg, ret>>

----------------------------------------------------------------------------
(* outbox.py *)

\* Mutant: every clinic of the plan is a target.
TargetsOfEveryChange(changes_list) == changes_list

\* targets: the changes whose change_type is NEW or REACTIVATED.
Targets(changes_list) ==
    SelectSeq(changes_list, LAMBDA change : change.change_type \in {"NEW", "REACTIVATED"})

\* mapping_by_id.get(clinic_id): of the records with the id the last one,
\* <<>> for None.
MappingById(records, clinic_id) ==
    LET at == {i \in 1..Len(records) : records[i].clinic_id = clinic_id}
    IN IF at = {} THEN <<>> ELSE records[Max(at)]

\* Mutant: the named image is not required.
MissingIgnoringNamed(dir, delivery) ==
    {name \in {"qr.png", "info.txt"} : <<dir, name>> \notin delivery}

\* missing: the required files that are not in the delivery folder.
Missing(dir, delivery) ==
    {name \in {"qr.png", "qr_named.png", "info.txt"} : <<dir, name>> \notin delivery}

\* The loop over targets: one sendlist row, and one ZIP, for every target with
\* a mapping record that is ACTIVE and whose delivery folder has the three
\* files.
RECURSIVE SendlistRows(_, _, _)
SendlistRows(targets, records, delivery) ==
    IF targets = <<>> THEN <<>>
    ELSE LET change == Head(targets)
             record == MappingById(records, change.clinic_id)
             rest == SendlistRows(Tail(targets), records, delivery)
         IN IF record = <<>> THEN rest
            ELSE IF upper(record.status) # "ACTIVE" THEN rest
            ELSE IF Missing(DeliveryDir(record), delivery) # {} THEN rest
            ELSE <<[clinic_id |-> record.clinic_id, clinic_name |-> record.clinic_name,
                    change_type |-> change.change_type, url |-> record.url,
                    zip_path |-> DeliveryDir(record)]>> \o rest

\* create_outbox(cfg, mapping_records, changes) with cfg.outbox_mode =
\* "changed", the only value the configuration accepts: the OutboxResult and
\* the content of the new outbox folder.
create_outbox(records, changes_list, delivery) ==
    LET targets == Targets(changes_list)
        rows == SendlistRows(targets, records, delivery)
    IN [targets |-> Len(targets), zips_created |-> Len(rows), sendlist |-> rows,
        zips |-> {rows[i].zip_path : i \in 1..Len(rows)}]

\* _run_build, lines 172-177.  create_outbox removes the outbox folder of the
\* build before; a build that skips the outbox leaves it as it is.
Outbox ==
    /\ pc = "delivered"
    /\ IF cfg.generate_outbox /\ ~skip_qr
       THEN \E result \in {create_outbox(mapping_records, changes, output.delivery)} :
               /\ output' = [output EXCEPT !.sendlist = result.sendlist,
                                           !.zips = result.zips]
               /\ outbox_result' = [made |-> TRUE, targets |-> result.targets,
                                    zips_created |-> result.zips_created]
               /\ sent' = sent \cup {<<result.sendlist[i].clinic_id, builds>> :
                                       i \in 1..Len(result.sendlist)}
       ELSE UNCHANGED <<output, outbox_result, sent>>
    /\ pc' = "finished"
    /\ UNCHANGED <<id_map_file, builds, clock, year, clinic_records, df_prev,
                   df_next, new_ids, changes, error, file_before, assigned,
                   listed_at, minted_in, reported, skip_qr, cfg, mapping_records,
                   arg, ret>>

----------------------------------------------------------------------------
(* cli.py: whole builds, one after another on one id_map.csv and one output
   folder. *)

\* _run_build returns 0 after _log_summary, or main logs the exception of a
\* step and returns 1.
Finish == Return({"finished", "failed"})

\* The process ends between two steps after save_id_map: a step raises (an
\* image or a file cannot be written) or the process is stopped.
Abort == Return({"plan", "rendered", "delivered"})

\* The rosters of the whole builds: no clinic, A, B, A and B, and a sheet
\* that cannot be read.
OutboxReadResults ==
    {read_clinic_records(excel) :
        excel \in Sheets(RawRows({<<"A">>, <<"B">>}, {MetaX}), 1)
                  \cup {[columns |-> RequiredColumns,
                         rows |-> <<CHOOSE r \in RawRows({<<"A">>}, {MetaX}) : TRUE,
                                    CHOOSE r \in RawRows({<<"B">>}, {MetaX}) : TRUE>>]}}

NextOutbox ==
    \/ Reconcile(OutboxReadResults, {2025}, {1})
    \/ Save
    \/ Plan
    \/ Render(Runs)
    \/ Deliver
    \/ Outbox
    \/ Finish
    \/ Abort

SpecOutbox == Init /\ [][NextOutbox]_vars

----------------------------------------------------------------------------
(* Direct calls of the functions of the core, as a test or another caller  *)
(* makes them: the arguments are drawn in the initial state and one action *)
(* per function applies it.                                                *)

\* Sheets whose names differ in whitespace or in letter case only, or are empty.
CallNames == {<<"A">>, <<" ", "A", " ">>, <<"a">>, NaN}

CallSheets == Sheets(RawRows(CallNames, {MetaX}), MaxRows)

\* Lists of ClinicInput a caller may hand to update_id_map: up to MaxRows
\* records named A, a or B, each with an address of its own, repetitions
\* included.
CallRecords ==
    LET inputs == {[name |-> n, address |-> <<"x">> \o n, phone |-> <<"p">>,
                    director |-> <<>>, homepage |-> <<"h">>] :
                      n \in {<<"A">>, <<"a">>, <<"B">>}}
    IN UNION {[1..k -> inputs] : k \in 0..MaxRows}

CallYears == {5, 2025, 2100}

StoredRow(clinic_id, name, status, first_seen_at, last_seen_at) ==
    [clinic_id |-> clinic_id, clinic_name |-> name, status |-> status,
     first_seen_at |-> first_seen_at, last_seen_at |-> last_seen_at,
     address |-> <<"w">>, phone |-> <<>>, director |-> <<>>, homepage |-> <<>>]

\* What stands in a row for a cell of a column the frame does not have.
NoCell == <<"no cell">>

\* The frame without one of its columns.
DropColumn(df, col) ==
    [columns |-> df.columns \ {col},
     rows |-> [i \in 1..Len(df.rows) |->
                 LET r == df.rows[i]
                 IN CASE col = "clinic_id" -> [r EXCEPT !.clinic_id = NoCell]
                      [] col = "clinic_name" -> [r EXCEPT !.clinic_name = NoCell]
                      [] col = "status" -> [r EXCEPT !.status = "no cell"]
                      [] col = "first_seen_at" -> [r EXCEPT !.first_seen_at = 0]
                      [] col = "last_seen_at" -> [r EXCEPT !.last_seen_at = 0]
                      [] col = "address" -> [r EXCEPT !.address = NoCell]
                      [] col = "phone" -> [r EXCEPT !.phone = NoCell]
                      [] col = "director" -> [r EXCEPT !.director = NoCell]
                      [] OTHER -> [r EXCEPT !.homepage = NoCell]]]

\* A (this year's prefix, ACTIVE) and B (an id of year 05, INACTIVE).
FrameAB ==
    [columns |-> COLUMNS,
     rows |-> <<StoredRow(FormatClinicId(Prefix(2025), 1), <<"A">>, "ACTIVE", 1, 2),
                StoredRow(FormatClinicId(Prefix(2005), 3), <<"B">>, "INACTIVE", 1, 1)>>]

\* Two records with the same clinic_name.
FrameDup ==
    [columns |-> COLUMNS,
     rows |-> <<StoredRow(FormatClinicId(Prefix(2025), 1), <<"A">>, "ACTIVE", 1, 2),
                StoredRow(FormatClinicId(Prefix(2025), 2), <<"A">>, "INACTIVE", 1, 1)>>]

\* The highest four-digit sequence number is taken.
FrameHigh ==
    [columns |-> COLUMNS,
     rows |-> <<StoredRow(<<"S", "J", "2", "5", "-", "9", "9", "9", "9">>,
                          <<"B">>, "ACTIVE", 1, 2)>>]

\* A status typed in lower case.
FrameLower ==
    [columns |-> COLUMNS,
     rows |-> <<StoredRow(FormatClinicId(Prefix(2025), 1), <<"A">>, "active", 1, 2)>>]

\* Ids typed by hand: an unpadded suffix, surrounding whitespace, a text
\* that is no id.
FrameOdd ==
    [columns |-> COLUMNS,
     rows |-> <<StoredRow(<<"S", "J", "2", "5", "-", "7">>, <<"A", "A">>, "ACTIVE", 1, 2),
                StoredRow(<<" ", "S", "J", "2", "5", "-", "0", "0", "0", "3", " ">>,
                          <<"B", "B">>, "ACTIVE", 1, 2),
                StoredRow(<<"X">>, <<"A", "B">>, "INACTIVE", 1, 1)>>]

\* The highest padded id of the year has whitespace around it; the others
\* are of another year or are followed by a letter.
FrameSpaced ==
    [columns |-> COLUMNS,
     rows |-> <<StoredRow(<<" ", "S", "J", "2", "5", "-", "0", "0", "0", "3", " ">>,
                          <<"A", "A">>, "ACTIVE", 1, 2),
                StoredRow(<<"S", "J", "2", "4", "-", "0", "0", "0", "9">>,
                          <<"B", "B">>, "INACTIVE", 1, 1),
                StoredRow(<<"S", "J", "2", "5", "-", "0", "0", "0", "4", "x">>,
                          <<"A", "B">>, "ACTIVE", 1, 2)>>]

\* Suffixes of four and of five digits.
FrameFive ==
    [columns |-> COLUMNS,
     rows |-> <<StoredRow(<<"S", "J", "2", "5", "-", "1", "0", "0", "0", "0">>,
                          <<"A", "A">>, "ACTIVE", 1, 2),
                StoredRow(<<"S", "J", "2", "5", "-", "9", "9", "9", "9">>,
                          <<"B", "B">>, "ACTIVE", 1, 2)>>]

\* The existing_df arguments of the direct calls of update_id_map.
CallFrames ==
    {EmptyFrame, FrameAB, FrameDup, FrameHigh, FrameLower, FrameOdd, FrameSpaced,
     FrameFive}
    \cup {DropColumn(FrameAB, col) : col \in COLUMNS}

\* The records the planner calls compare: three clinics with ids of their own.
PlanClinics ==
    {<<FormatClinicId(Prefix(2025), 1), <<"A">>>>,
     <<FormatClinicId(Prefix(2025), 2), <<"B">>>>,
     <<FormatClinicId(Prefix(2024), 1), <<"A", "B">>>>}

\* The snapshots of at most n records of different clinics, in any order,
\* with the given spellings of the status.
PlanFrames(statuses, n) ==
    LET rows == {StoredRow(c[1], c[2], st, 1, 1) : c \in PlanClinics, st \in statuses}
    IN {[columns |-> COLUMNS, rows |-> r] :
          r \in {q \in UNION {[1..k -> rows] : k \in 0..n} :
                   \A i, j \in 1..Len(q) : i # j => q[i].clinic_id # q[j].clinic_id}}

\* A previous snapshot is read from id_map.csv, where the status may have been
\* typed in another spelling; the next one is written by update_id_map.
PrevStatuses == {"ACTIVE", "INACTIVE", "active", "Inactive", " ACTIVE "}

NextStatuses == {"ACTIVE", "INACTIVE"}

\* The id_map.csv files of the direct calls of load_id_map: no file, the
\* files save_id_map wrote, the files without one column, the file with the
\* five required columns only and a file without two required columns.
LoadFiles ==
    {NoFile, save_id_map(EmptyFrame), save_id_map(FrameAB)}
    \cup {save_id_map(DropColumn(FrameAB, col)) : col \in COLUMNS}
    \cup {[exists |-> TRUE, columns |-> CORE_COLUMNS,
           rows |-> DropColumn(DropColumn(DropColumn(DropColumn(FrameAB,
                       "address"), "phone"), "director"), "homepage").rows],
          save_id_map(DropColumn(DropColumn(FrameAB, "status"), "clinic_id"))}

\* load_id_map on the file arg.
CallLoad ==
    /\ pc = "load"
    /\ ret' = load_id_map(arg)
    /\ pc' = "loaded"
    /\ UNCHANGED <<id_map_file, builds, clock, year, clinic_records, df_prev,
                   df_next, new_ids, changes, error, file_before, assigned,
                   listed_at, minted_in, reported, sent, steps, arg>>

\* The raw names of the direct calls of normalize_name: every text of at
\* most MaxText characters over two letters, the space and the tab.
RawTexts == UNION {[1..k -> {" ", "\t", "A", "B"}] : k \in 0..MaxText}

\* normalize_name on the text arg.
CallNormalize ==
    /\ pc = "normalize"
    /\ ret' = normalize_name(arg)
    /\ pc' = "normalized"
    /\ UNCHANGED <<id_map_file, builds, clock, year, clinic_records, df_prev,
                   df_next, new_ids, changes, error, file_before, assigned,
                   listed_at, minted_in, reported, sent, steps, arg>>

\* read_clinic_records on the sheet arg.
CallRead ==
    /\ pc = "read"
    /\ ret' = read_clinic_records(arg)
    /\ pc' = "read_returned"
    /\ UNCHANGED <<id_map_file, builds, clock, year, clinic_records, df_prev,
                   df_next, new_ids, changes, error, file_before, assigned,
                   listed_at, minted_in, reported, sent, steps, arg>>

\* update_id_map(clinic_records, year, df_prev) at second clock; arg keeps
\* existing_df as the caller passed it.
CallUpdate ==
    /\ pc = "update"
    /\ \E result \in {update_id_map(clinic_records, year, df_prev, clock)} :
          /\ pc' = IF result.ok THEN "updated" ELSE "update_raised"
          /\ error' = result.error
          /\ df_prev' = result.existing
          /\ df_next' = result.data
          /\ new_ids' = result.new_ids
    /\ UNCHANGED <<id_map_file, builds, clock, year, clinic_records, changes,
                   file_before, assigned, listed_at, minted_in, reported, sent,
                   steps, arg, ret>>

InitCalls ==
    /\ id_map_file = NoFile
    /\ builds = 0
    /\ clock = 3
    /\ new_ids = <<>>
    /\ changes = <<>>
    /\ error = ""
    /\ file_before = NoFile
    /\ assigned = {}
    /\ listed_at = {}
    /\ HistoryInit
    /\ StepsInit
    /\ ret = <<>>
    /\ \/ /\ pc = "read"
          /\ arg \in CallSheets
          /\ year = 0
          /\ clinic_records = <<>>
          /\ df_prev = EmptyFrame
          /\ df_next = EmptyFrame
       \/ /\ pc = "update"
          /\ clinic_records \in CallRecords
          /\ year \in CallYears
          /\ df_prev \in CallFrames
          /\ arg = df_prev
          /\ df_next = EmptyFrame
       \/ /\ pc = "normalize"
          /\ arg \in RawTexts
          /\ year = 0
          /\ clinic_records = <<>>
          /\ df_prev = EmptyFrame
          /\ df_next = EmptyFrame
       \/ /\ pc = "load"
          /\ arg \in LoadFiles
          /\ year = 0
          /\ clinic_records = <<>>
          /\ df_prev = EmptyFrame
          /\ df_next = EmptyFrame
       \/ /\ pc = "plan"
          /\ df_prev \in PlanFrames(PrevStatuses, MaxRows)
          /\ df_next \in PlanFrames(NextStatuses, MaxRows)
          /\ arg = <<>>
          /\ year = 0
          /\ clinic_records = <<>>

\* Plan is build_changes(df_prev, df_next) on the drawn pair of snapshots.
NextCalls == CallNormalize \/ CallRead \/ CallUpdate \/ CallLoad \/ Plan

SpecCalls == InitCalls /\ [][NextCalls]_vars

----------------------------------------------------------------------------
(* Vocabulary of the properties. *)

\* update_id_map has returned in the current build.
HasResult == pc \in {"save", "plan", "done"}

InputNames == Range(NamesOf(clinic_records))

NameColumn(df) == Range(ColumnOf(df, "clinic_name"))

IdColumn(df) == Range(ColumnOf(df, "clinic_id"))

IdsOfName(rows, name) ==
    {rows[i].clinic_id : i \in {k \in 1..Len(rows) : rows[k].clinic_name = name}}

RowOfId(df, clinic_id) ==
    df.rows[CHOOSE i \in 1..Len(df.rows) : df.rows[i].clinic_id = clinic_id]

\* The numeric suffixes of the ids of df that carry the prefix.
SuffixesUnder(df, prefix) ==
    {SuffixNumber(df.rows[i].clinic_id, prefix) :
        i \in {k \in 1..Len(df.rows) : MatchesPrefix(df.rows[k].clinic_id, prefix)}}

Unique(rows) ==
    \A i, j \in 1..Len(rows) :
        i # j => /\ rows[i].clinic_name # rows[j].clinic_name
                 /\ rows[i].clinic_id # rows[j].clinic_id

\* Every <<clinic_id, clinic_name>> stored so far or held by the snapshot
\* update_id_map has just returned.
EverPaired == assigned \cup (IF HasResult THEN Pairs(df_next.rows) ELSE {})

----------------------------------------------------------------------------
(* Properties of the builds chained through id_map.csv (Spec). *)

\* C1: identity permanence.  A name that has a record keeps exactly the
\* same clinic_id in the next snapshot: from existing_df to the snapshot
\* update_id_map returns, and from one content of id_map.csv to the next,
\* whatever the roster and the year of the build are.
C1_IdentityPermanence ==
    [][/\ \A i \in 1..Len(id_map_file.rows) :
             IdsOfName(id_map_file'.rows, id_map_file.rows[i].clinic_name)
                = {id_map_file.rows[i].clinic_id}
       /\ HasResult' =>
             \A i \in 1..Len(df_prev'.rows) :
                IdsOfName(df_next'.rows, df_prev'.rows[i].clinic_name)
                   = {df_prev'.rows[i].clinic_id}]_vars

\* A clinic minted under one year, absent for a build, comes back in a build
\* of another year and still has its id.
C1_Witness ==
    /\ pc = "done"
    /\ \E i \in 1..Len(df_prev.rows) :
          /\ df_prev.rows[i].status = "INACTIVE"
          /\ df_prev.rows[i].clinic_name \in InputNames
          /\ ~MatchesPrefix(df_prev.rows[i].clinic_id, Prefix(year))
          /\ df_next.rows[i].clinic_id = df_prev.rows[i].clinic_id
          /\ df_next.rows[i].status = "ACTIVE"

\* C2: no id recycling or fabrication.  Over all builds no clinic_id is ever
\* paired with two names and no name with two ids, and the ids a build mints
\* belong to exactly the input names without a record in existing_df.
C2_NoRecyclingNoFabrication ==
    /\ \A p, q \in EverPaired : (p[1] = q[1]) <=> (p[2] = q[2])
    /\ HasResult =>
          /\ Len(df_next.rows) = Len(df_prev.rows) + Len(new_ids)
          /\ \A k \in 1..Len(new_ids) :
                LET row == df_next.rows[Len(df_prev.rows) + k]
                IN /\ row.clinic_id = new_ids[k]
                   /\ row.clinic_name \in InputNames \ NameColumn(df_prev)
          /\ InputNames \ NameColumn(df_prev)
                = {df_next.rows[Len(df_prev.rows) + k].clinic_name :
                      k \in 1..Len(new_ids)}

\* A clinic that was INACTIVE comes back while another name is minted in the
\* same build: the old one keeps its id, the new one gets a fresh id.
C2_Witness ==
    /\ pc = "done"
    /\ Len(new_ids) = 1
    /\ \E i \in 1..Len(df_prev.rows) :
          /\ df_prev.rows[i].status = "INACTIVE"
          /\ df_next.rows[i].status = "ACTIVE"
          /\ MatchesPrefix(df_prev.rows[i].clinic_id, Prefix(year))

\* C3: uniqueness.  In every snapshot, the one update_id_map returns and the
\* one id_map.csv holds, no two records share a clinic_name or a clinic_id.
C3_Uniqueness ==
    /\ Unique(id_map_file.rows)
    /\ HasResult => Unique(df_next.rows)

\* Three records, two of which have the same number under different prefixes.
C3_Witness ==
    /\ Len(id_map_file.rows) = 3
    /\ \E i, j \in 1..3 :
          /\ i # j
          /\ SubSeq(id_map_file.rows[i].clinic_id, 6, 9)
                = SubSeq(id_map_file.rows[j].clinic_id, 6, 9)

\* C4: status determinism.  A record of the returned snapshot is ACTIVE when
\* its name is an input name of this build and INACTIVE otherwise.
C4_StatusDeterminism ==
    HasResult =>
       \A i \in 1..Len(df_next.rows) :
          df_next.rows[i].status
             = IF df_next.rows[i].clinic_name \in InputNames THEN "ACTIVE"
               ELSE "INACTIVE"

\* One build turns a stored ACTIVE record INACTIVE and a stored INACTIVE
\* record ACTIVE.
C4_Witness ==
    /\ HasResult
    /\ \E i, j \in 1..Len(df_prev.rows) :
          /\ df_prev.rows[i].status = "ACTIVE"
          /\ df_next.rows[i].status = "INACTIVE"
          /\ df_prev.rows[j].status = "INACTIVE"
          /\ df_next.rows[j].status = "ACTIVE"

\* C5: monotonic minting within one build.  The k-th minted id is the
\* build's prefix followed by max + k, max being the largest suffix under
\* that prefix in existing_df (0 if none), and the minted ids go to the new
\* names in increasing lexicographic order.
C5_MonotonicMinting ==
    HasResult =>
       LET prefix == Prefix(year)
           known == SuffixesUnder(df_prev, prefix)
           max == IF known = {} THEN 0 ELSE CHOOSE m \in known : \A n \in known : n <= m
           minted(k) == df_next.rows[Len(df_prev.rows) + k]
       IN \A k \in 1..Len(new_ids) :
             /\ minted(k).clinic_id = new_ids[k]
             /\ MatchesPrefix(new_ids[k], prefix)
             /\ SuffixNumber(new_ids[k], prefix) = max + k
             /\ \A n \in known : n < SuffixNumber(new_ids[k], prefix)
             /\ \A j \in 1..(k - 1) : StrLess(minted(j).clinic_name, minted(k).clinic_name)

\* Two names are minted in one build on a store that already has an id under
\* the prefix; the roster lists them in decreasing order.
C5_Witness ==
    /\ HasResult
    /\ Len(new_ids) = 2
    /\ StrLess(clinic_records[2].name, clinic_records[1].name)
    /\ SuffixesUnder(df_prev, Prefix(year)) # {}

----------------------------------------------------------------------------
(* Sticky metadata (SpecMeta). *)

\* What the merge of one optional field must give.
Sticky(incoming, stored) == IF incoming = <<>> THEN stored ELSE incoming

\* C6: sticky metadata.  For a record of existing_df whose name is in the
\* input, each of address, phone, director and homepage is, field by field,
\* the input value when that is non-empty and the stored value otherwise.
C6_StickyMetadata ==
    HasResult =>
       \A i \in 1..Len(df_prev.rows) :
          df_prev.rows[i].clinic_name \in InputNames =>
             LET old == df_prev.rows[i]
                 new == df_next.rows[i]
                 in == RecordOf(clinic_records, old.clinic_name)
             IN /\ new.clinic_name = old.clinic_name
                /\ new.address = Sticky(in.address, old.address)
                /\ new.phone = Sticky(in.phone, old.phone)
                /\ new.director = Sticky(in.director, old.director)
                /\ new.homepage = Sticky(in.homepage, old.homepage)

\* In one merge a stored phone is kept against an empty input cell, a stored
\* address is replaced by a different text, and an empty stored director is
\* filled.
C6_Witness ==
    /\ HasResult
    /\ \E i \in 1..Len(df_prev.rows) :
          /\ df_prev.rows[i].clinic_name \in InputNames
          /\ RecordOf(clinic_records, df_prev.rows[i].clinic_name).phone = <<>>
          /\ df_prev.rows[i].phone # <<>>
          /\ df_next.rows[i].phone = df_prev.rows[i].phone
          /\ df_prev.rows[i].address # <<>>
          /\ df_next.rows[i].address # df_prev.rows[i].address
          /\ df_prev.rows[i].director = <<>>
          /\ df_next.rows[i].director # <<>>

----------------------------------------------------------------------------
(* The planner and the order of the build's steps (Spec). *)

StatusOfId(df, clinic_id) == RowOfId(df, clinic_id).status

\* C7: change classification.  For a clinic_id present in both snapshots the
\* change is DEACTIVATED for ACTIVE to INACTIVE, REACTIVATED for INACTIVE to
\* ACTIVE and UNCHANGED when the status stays; it is never NEW.
C7_ChangeClassification ==
    pc = "done" =>
       \A k \in 1..Len(changes) :
          changes[k].clinic_id \in IdColumn(df_prev) \cap IdColumn(df_next) =>
             LET before == StatusOfId(df_prev, changes[k].clinic_id)
                 after == StatusOfId(df_next, changes[k].clinic_id)
             IN changes[k].change_type
                   = CASE before = "ACTIVE" /\ after = "INACTIVE" -> "DEACTIVATED"
                       [] before = "INACTIVE" /\ after = "ACTIVE" -> "REACTIVATED"
                       [] before = "ACTIVE" /\ after = "ACTIVE" -> "UNCHANGED"
                       [] before = "INACTIVE" /\ after = "INACTIVE" -> "UNCHANGED"

\* One build reports a DEACTIVATED, a REACTIVATED and an UNCHANGED clinic.
C7_Witness ==
    /\ pc = "done"
    /\ \E i, j, k \in 1..Len(changes) :
          /\ changes[i].change_type = "DEACTIVATED"
          /\ changes[j].change_type = "REACTIVATED"
          /\ changes[k].change_type = "UNCHANGED"

\* C8: rows are never deleted.  Every record of existing_df is in the
\* returned snapshot with the same clinic_id, clinic_name and first_seen_at,
\* and the set of clinic_ids in id_map.csv only grows.
C8_RowsNeverDeleted ==
    /\ [](HasResult =>
             \A i \in 1..Len(df_prev.rows) :
                \E j \in 1..Len(df_next.rows) :
                   /\ df_next.rows[j].clinic_id = df_prev.rows[i].clinic_id
                   /\ df_next.rows[j].clinic_name = df_prev.rows[i].clinic_name
                   /\ df_next.rows[j].first_seen_at = df_prev.rows[i].first_seen_at)
    /\ [][\A i \in 1..Len(id_map_file.rows) :
             \E j \in 1..Len(id_map_file'.rows) :
                /\ id_map_file'.rows[j].clinic_id = id_map_file.rows[i].clinic_id
                /\ id_map_file'.rows[j].clinic_name = id_map_file.rows[i].clinic_name
                /\ id_map_file'.rows[j].first_seen_at
                      = id_map_file.rows[i].first_seen_at]_vars

\* A clinic first seen two builds ago and INACTIVE since comes back: it is
\* still stored, with its first_seen_at.
C8_Witness ==
    /\ pc = "done"
    /\ \E i \in 1..Len(df_prev.rows) :
          /\ df_prev.rows[i].status = "INACTIVE"
          /\ df_next.rows[i].status = "ACTIVE"
          /\ df_next.rows[i].clinic_id = df_prev.rows[i].clinic_id
          /\ df_next.rows[i].first_seen_at = df_prev.rows[i].first_seen_at
          /\ df_next.rows[i].first_seen_at + 1 < df_next.rows[i].last_seen_at

\* C9: atomic reconcile-and-plan.  id_map.csv differs from its content at
\* the start of the build only when both update_id_map and build_changes
\* have returned.
C9_AtomicReconcileAndPlan == id_map_file # file_before => pc = "done"

InputValidationErrors ==
    {"Missing required column(s)",
     "Duplicate clinic names after normalization",
     "Duplicate clinic names provided to update_id_map"}

\* C10: no write on input validation failure.  A build that ends with the
\* error of a missing column or of duplicate names leaves id_map.csv as it
\* was when the build started, and the step that raises does not write it.
C10_NoWriteOnValidationFailure ==
    /\ [](pc = "failed" /\ error \in InputValidationErrors
             => id_map_file = file_before)
    /\ [][pc' = "failed" /\ error' \in InputValidationErrors
             => id_map_file' = id_map_file]_vars

\* A roster with two rows of the same normalized name fails a build on a
\* store that holds records.
C10_Witness ==
    /\ pc = "failed"
    /\ error = "Duplicate clinic names after normalization"
    /\ Len(id_map_file.rows) > 0

\* C15: first mint for a prefix.  When no clinic_id of existing_df carries
\* the prefix of the build (the store is empty, or all its ids were minted
\* under another year), the first new name in lexicographic order receives
\* suffix 0001.  With an empty store, the input [A] and year 2025 the next
\* snapshot is the single ACTIVE record SJ25-0001 and build_changes reports
\* it as NEW.
C15_FirstMintForPrefix ==
    /\ (HasResult /\ new_ids # <<>> /\ SuffixesUnder(df_prev, Prefix(year)) = {}) =>
          LET first == df_next.rows[Len(df_prev.rows) + 1]
          IN /\ new_ids[1] = Prefix(year) \o <<"0", "0", "0", "1">>
             /\ first.clinic_id = new_ids[1]
             /\ \A name \in InputNames \ NameColumn(df_prev) :
                   name = first.clinic_name \/ StrLess(first.clinic_name, name)
    /\ (pc = "done" /\ ~file_before.exists /\ year = 2025
           /\ NamesOf(clinic_records) = <<<<"A">>>>) =>
          /\ Len(df_next.rows) = 1
          /\ df_next.rows[1].clinic_id = <<"S", "J", "2", "5", "-", "0", "0", "0", "1">>
          /\ df_next.rows[1].clinic_name = <<"A">>
          /\ df_next.rows[1].status = "ACTIVE"
          /\ changes = <<[clinic_id |-> <<"S", "J", "2", "5", "-", "0", "0", "0", "1">>,
                          clinic_name |-> <<"A">>, change_type |-> "NEW"]>>

\* Two names are minted in a build whose store holds only an id of another
\* year.
C15_Witness ==
    /\ pc = "done"
    /\ df_prev.rows # <<>>
    /\ SuffixesUnder(df_prev, Prefix(year)) = {}
    /\ Len(new_ids) = 2
    /\ changes[Len(changes)].change_type = "NEW"

----------------------------------------------------------------------------
(* Timestamps of builds that may share a second (SpecClock). *)

LastSeenOf(df, name) ==
    df.rows[CHOOSE i \in 1..Len(df.rows) : df.rows[i].clinic_name = name].last_seen_at

\* C16 as stated: after update_id_map the last_seen_at of a record equals
\* the build time if and only if the record is ACTIVE in this build, and an
\* INACTIVE record keeps the last_seen_at it had in existing_df.
C16_LastSeenIffActive ==
    HasResult =>
       \A i \in 1..Len(df_next.rows) :
          /\ (df_next.rows[i].last_seen_at = clock)
                <=> (df_next.rows[i].status = "ACTIVE")
          /\ (df_next.rows[i].status = "INACTIVE")
                => df_next.rows[i].last_seen_at
                      = LastSeenOf(df_prev, df_next.rows[i].clinic_name)

\* C16, amended: after update_id_map an ACTIVE record has the build time as
\* last_seen_at and an INACTIVE record keeps the last_seen_at it had in
\* existing_df, so that the last_seen_at of every record, in the returned
\* snapshot and in id_map.csv, is the time of the most recent build whose
\* roster held the name.  (An INACTIVE record has the build time as well
\* when the build that last listed it ran in the same second.)
C16_LastSeenTracksActivity ==
    /\ HasResult =>
          \A i \in 1..Len(df_next.rows) :
             /\ (df_next.rows[i].status = "ACTIVE")
                   => /\ df_next.rows[i].last_seen_at = clock
                      /\ df_next.rows[i].clinic_name \in InputNames
             /\ (df_next.rows[i].status = "INACTIVE")
                   => df_next.rows[i].last_seen_at
                         = LastSeenOf(df_prev, df_next.rows[i].clinic_name)
             /\ <<df_next.rows[i].clinic_name, df_next.rows[i].last_seen_at>>
                   \in listed_at
    /\ pc \in {"idle", "plan", "done", "failed"} =>
          \A i \in 1..Len(id_map_file.rows) :
             <<id_map_file.rows[i].clinic_name, id_map_file.rows[i].last_seen_at>>
                \in listed_at

\* A was listed by two builds and B only by the first one: after a third
\* build, a second later and without both, A has the time of the second
\* build and B the time of the first.
C16_Witness ==
    /\ pc = "done"
    /\ Len(df_next.rows) = 2
    /\ df_next.rows[1].status = "INACTIVE"
    /\ df_next.rows[2].status = "INACTIVE"
    /\ df_next.rows[1].last_seen_at > df_next.rows[2].last_seen_at
    /\ df_next.rows[1].last_seen_at < clock

----------------------------------------------------------------------------
(* Properties of the direct calls (SpecCalls). *)

\* update_id_map has returned or raised in a direct call.
UpdateCalled == pc \in {"updated", "update_raised"}

\* The rows of a sheet read_clinic_records keeps: the name is a text with a
\* character that is no whitespace.
KeptRows(excel) ==
    {i \in 1..Len(excel.rows) :
        /\ excel.rows[i].name # NaN
        /\ \E k \in 1..Len(excel.rows[i].name) : excel.rows[i].name[k] \notin Whitespace}

\* Two kept rows of the sheet have the same name after normalisation.
SheetHasDuplicate(excel) ==
    \E i, j \in KeptRows(excel) :
        /\ i # j
        /\ normalize_name(excel.rows[i].name) = normalize_name(excel.rows[j].name)

ListHasDuplicate(records) ==
    \E i, j \in 1..Len(records) : i # j /\ records[i].name = records[j].name

\* existing_df is a frame update_id_map accepts.
FrameAccepted(df) ==
    /\ CORE_COLUMNS \subseteq df.columns
    /\ \A i, j \in 1..Len(df.rows) :
          i # j => df.rows[i].clinic_name # df.rows[j].clinic_name

\* C11: duplicate input names are fatal.  read_clinic_records raises and
\* returns no records when two rows of the sheet normalise to the same name,
\* and update_id_map raises, with no snapshot and no minted id, when its
\* input list holds a name twice.  A duplicate is never merged or dropped:
\* otherwise every kept row is a record and every input name has one row.
\* Names that differ in letter case are different names.
C11_DuplicateInputNamesFatal ==
    /\ (pc = "read_returned" /\ RequiredColumns \subseteq arg.columns) =>
          IF SheetHasDuplicate(arg)
          THEN /\ ~ret.ok
               /\ ret.error = "Duplicate clinic names after normalization"
               /\ ret.records = <<>>
          ELSE /\ ret.ok
               /\ Len(ret.records) = Cardinality(KeptRows(arg))
               /\ \A i \in KeptRows(arg) :
                     \E k \in 1..Len(ret.records) :
                        ret.records[k].name = normalize_name(arg.rows[i].name)
    /\ UpdateCalled =>
          IF ListHasDuplicate(clinic_records)
          THEN /\ pc = "update_raised"
               /\ error = "Duplicate clinic names provided to update_id_map"
               /\ df_next = EmptyFrame
               /\ new_ids = <<>>
          ELSE FrameAccepted(arg) =>
                  /\ pc = "updated"
                  /\ \A i \in 1..Len(clinic_records) :
                        Cardinality({k \in 1..Len(df_next.rows) :
                                       df_next.rows[k].clinic_name
                                          = clinic_records[i].name}) = 1

\* A sheet with the rows "A" and " A " has been refused.
C11_Witness ==
    /\ pc = "read_returned"
    /\ Len(arg.rows) = 2
    /\ arg.rows[1].name = <<"A">>
    /\ arg.rows[2].name = <<" ", "A", " ">>
    /\ ~ret.ok

\* C12: a corrupted snapshot is fatal.  update_id_map raises, with no next
\* snapshot and no minted id, whenever existing_df holds two records with
\* the same clinic_name or lacks one of the five required columns; the
\* records of existing_df are left as they were, none is merged or removed.
C12_CorruptedSnapshotFatal ==
    (UpdateCalled /\ ~FrameAccepted(arg)) =>
        /\ pc = "update_raised"
        /\ df_next = EmptyFrame
        /\ new_ids = <<>>
        /\ ~ListHasDuplicate(clinic_records) =>
              error = IF CORE_COLUMNS \subseteq arg.columns
                      THEN "id_map has duplicate clinic names"
                      ELSE "id_map is missing required columns"
        /\ Len(df_prev.rows) = Len(arg.rows)
        /\ \A i \in 1..Len(arg.rows) :
              /\ df_prev.rows[i].clinic_id = arg.rows[i].clinic_id
              /\ df_prev.rows[i].clinic_name = arg.rows[i].clinic_name

\* A snapshot with two records named A has been refused for a roster that
\* was itself in order.
C12_Witness ==
    /\ pc = "update_raised"
    /\ error = "id_map has duplicate clinic names"
    /\ clinic_records # <<>>
    /\ Len(arg.rows) = 2
    /\ arg.rows[1].clinic_name = arg.rows[2].clinic_name

\* C13: planner coverage and order.  build_changes emits exactly one
\* ChangeRecord for each clinic_id of the next snapshot, in the order of the
\* next snapshot; the record is NEW exactly when the id is absent from the
\* previous snapshot, and no record is emitted for an id that is only in the
\* previous snapshot.
C13_PlannerCoverageAndOrder ==
    pc = "done" =>
        /\ Len(changes) = Len(df_next.rows)
        /\ \A i \in 1..Len(changes) :
              /\ changes[i].clinic_id = df_next.rows[i].clinic_id
              /\ changes[i].clinic_name = df_next.rows[i].clinic_name
              /\ (changes[i].change_type = "NEW")
                    <=> (df_next.rows[i].clinic_id \notin IdColumn(df_prev))
        /\ \A id \in IdColumn(df_next) :
              Cardinality({i \in 1..Len(changes) : changes[i].clinic_id = id}) = 1
        /\ \A id \in IdColumn(df_prev) \ IdColumn(df_next) :
              \A i \in 1..Len(changes) : changes[i].clinic_id # id

\* The next snapshot holds a known and an unknown id, in that order, and the
\* previous one holds an id the next one has lost.
C13_Witness ==
    /\ pc = "done"
    /\ Len(changes) = 2
    /\ changes[1].change_type # "NEW"
    /\ changes[2].change_type = "NEW"
    /\ IdColumn(df_prev) \ IdColumn(df_next) # {}

\* str.upper() of the stripped status, on the spellings the model draws.
UpperStatus(status) ==
    CASE StripStatus(status) = "active" -> "ACTIVE"
      [] StripStatus(status) = "Inactive" -> "INACTIVE"
      [] OTHER -> StripStatus(status)

\* C14: the status of a snapshot is case-insensitive on read.  A record of
\* the previous snapshot whose status is a lower-case or mixed-case spelling
\* of ACTIVE or INACTIVE is classified by build_changes as the upper-case
\* value is (previous "active", next INACTIVE: DEACTIVATED), and every status
\* update_id_map writes is the upper-case ACTIVE or INACTIVE.
C14_StatusCaseInsensitiveOnRead ==
    /\ pc = "done" =>
          \A k \in 1..Len(changes) :
             changes[k].clinic_id \in IdColumn(df_prev) =>
                changes[k].change_type
                   = Transition(UpperStatus(StatusOfId(df_prev, changes[k].clinic_id)),
                                StatusOfId(df_next, changes[k].clinic_id))
    /\ pc = "updated" =>
          \A i \in 1..Len(df_next.rows) :
             df_next.rows[i].status \in {"ACTIVE", "INACTIVE"}

\* The cell of a row in one of the optional columns.
OptionalCell(row, col) ==
    CASE col = "address" -> row.address
      [] col = "phone" -> row.phone
      [] col = "director" -> row.director
      [] col = "homepage" -> row.homepage

\* The rows are those of the source: the required cells as they were, an
\* optional cell as it was when the source has the column and "" when not.
RowsFilledFrom(rows, source) ==
    /\ Len(rows) = Len(source.rows)
    /\ \A i \in 1..Len(rows) :
          /\ rows[i].clinic_id = source.rows[i].clinic_id
          /\ rows[i].clinic_name = source.rows[i].clinic_name
          /\ rows[i].status = source.rows[i].status
          /\ rows[i].first_seen_at = source.rows[i].first_seen_at
          /\ rows[i].last_seen_at = source.rows[i].last_seen_at
          /\ \A col \in {"address", "phone", "director", "homepage"} :
                OptionalCell(rows[i], col)
                   = IF col \in source.columns
                     THEN OptionalCell(source.rows[i], col) ELSE <<>>

NineColumns ==
    {"clinic_id", "clinic_name", "status", "first_seen_at", "last_seen_at",
     "address", "phone", "director", "homepage"}

LacksRequiredColumn(columns) ==
    \E col \in {"clinic_id", "clinic_name", "status", "first_seen_at", "last_seen_at"} :
        col \notin columns

\* C17: column handling of load_id_map and of update_id_map's own check.
\* A missing optional column (address, phone, director, homepage) is read as
\* empty strings and the call succeeds; a missing required column makes the
\* call raise; load_id_map returns an empty snapshot with all nine columns
\* when the file does not exist.
C17_LoadColumnHandling ==
    /\ pc = "loaded" =>
          IF ~arg.exists
          THEN ret.ok /\ ret.df.columns = NineColumns /\ ret.df.rows = <<>>
          ELSE IF LacksRequiredColumn(arg.columns)
          THEN ~ret.ok /\ ret.error = "id_map is missing required columns"
          ELSE /\ ret.ok
               /\ ret.df.columns = NineColumns
               /\ RowsFilledFrom(ret.df.rows, arg)
    /\ (UpdateCalled /\ ~ListHasDuplicate(clinic_records)) =>
          IF LacksRequiredColumn(arg.columns)
          THEN pc = "update_raised" /\ error = "id_map is missing required columns"
          ELSE /\ df_prev.columns = NineColumns
               /\ RowsFilledFrom(df_prev.rows, arg)
               /\ FrameAccepted(arg) =>
                     /\ pc = "updated"
                     /\ \A i \in 1..Len(arg.rows) :
                           \A col \in {"address", "phone", "director", "homepage"} \ arg.columns :
                              arg.rows[i].clinic_name \notin InputNames
                                 => OptionalCell(df_next.rows[i], col) = <<>>

\* A file with two records and without the phone column has been loaded.
C17_Witness ==
    /\ pc = "loaded"
    /\ arg.exists
    /\ "phone" \notin arg.columns
    /\ ret.ok
    /\ Len(ret.df.rows) = 2
    /\ ret.df.rows[1].phone = <<>>

\* The characters of a text that are no whitespace, in order.
Letters(text) == SelectSeq(text, LAMBDA c : c \notin Whitespace)

\* The number of whitespace runs of a text that stand between two words.
InnerRuns(text) ==
    Cardinality({i \in 1..(Len(text) - 1) :
                   /\ text[i] \in Whitespace
                   /\ text[i + 1] \notin Whitespace
                   /\ \E j \in 1..(i - 1) : text[j] \notin Whitespace})

\* The texts that have one whitespace character more than text has, at an
\* end or next to a whitespace character of text.
WithMoreWhitespace(text) ==
    {SubSeq(text, 1, k) \o <<w>> \o SubSeq(text, k + 1, Len(text)) :
        k \in {n \in 0..Len(text) :
                 \/ n = 0
                 \/ n = Len(text)
                 \/ text[n] \in Whitespace
                 \/ text[n + 1] \in Whitespace},
        w \in Whitespace}

\* C18: normalize_name is idempotent and canonicalising.  The result has no
\* leading or trailing whitespace and no run of two or more whitespace
\* characters, every inner run of the input having become one space
\* between the same words; normalising the result gives the result; and
\* texts that differ only in leading, trailing or repeated inner whitespace
\* have the same result.
C18_NormalizeCanonical ==
    pc = "normalized" =>
        /\ ret # <<>> => (ret[1] \notin Whitespace /\ ret[Len(ret)] \notin Whitespace)
        /\ \A i \in 1..Len(ret) : ret[i] \in Whitespace =>
              /\ ret[i] = " "
              /\ ret[i + 1] \notin Whitespace
        /\ Letters(ret) = Letters(arg)
        /\ Len(ret) = Len(Letters(arg)) + InnerRuns(arg)
        /\ normalize_name(ret) = ret
        /\ \A text \in WithMoreWhitespace(arg) : normalize_name(text) = ret

\* A name with a space and a tab between its two words.
C18_Witness ==
    /\ pc = "normalized"
    /\ arg = <<"A", " ", "\t", "B">>
    /\ ret = <<"A", " ", "B">>

\* The lists that hold the records of a list in another order.
Reordered(records) ==
    {[i \in 1..Len(records) |-> records[f[i]]] :
        f \in {g \in [1..Len(records) -> 1..Len(records)] :
                 \A i, j \in 1..Len(records) : i # j => g[i] # g[j]}}

\* C19: order-independent, reproducible id assignment.  For the same
\* existing_df, year and build time, a call of update_id_map with the input
\* list in any other order returns the same snapshot (the same clinic_id for
\* every name, the same record order) and the same new_ids.
C19_OrderIndependentAssignment ==
    pc = "updated" =>
        \A other \in Reordered(clinic_records) :
           LET result == update_id_map(other, year, arg, clock)
           IN /\ result.ok
              /\ result.new_ids = new_ids
              /\ result.data = df_next

\* Two new names were given in descending order, next to a stored record.
C19_Witness ==
    /\ pc = "updated"
    /\ arg.rows # <<>>
    /\ Len(new_ids) = 2
    /\ StrLess(clinic_records[2].name, clinic_records[1].name)

\* The value of a text of decimal digits.
RECURSIVE ValueOfDigits(_)
ValueOfDigits(text) ==
    IF text = <<>> THEN 0
    ELSE 10 * ValueOfDigits(SubSeq(text, 1, Len(text) - 1))
         + (CHOOSE d \in 0..9 : DigitChars[d + 1] = text[Len(text)])

\* The k-th sequence number of the call: one more per mint, counted from the
\* highest number existing_df holds under the prefix (0 if none).
SequenceNumber(k) == Max({0} \cup SuffixesUnder(arg, SubSeq(new_ids[k], 1, 5))) + k

\* The first five characters of the id are SJ, the year mod 100 in two
\* digits, and a hyphen; the rest are digits.
HasYearPrefix(clinic_id) ==
    /\ Len(clinic_id) > 5
    /\ clinic_id[1] = "S"
    /\ clinic_id[2] = "J"
    /\ IsDigit(clinic_id[3])
    /\ IsDigit(clinic_id[4])
    /\ ValueOfDigits(SubSeq(clinic_id, 3, 4)) = year % 100
    /\ clinic_id[5] = "-"
    /\ \A i \in 6..Len(clinic_id) : IsDigit(clinic_id[i])

----------------------------------------------------------------------------
(* Properties over sequences of builds (Spec). *)

\* The first five characters of a minted id: SJ<YY>-.
PrefixOfId(clinic_id) == SubSeq(clinic_id, 1, 5)

SuffixOfId(clinic_id) == ValueOfDigits(SubSeq(clinic_id, 6, Len(clinic_id)))

\* C21: monotonic minting across builds.  Of two clinic_ids with the same
\* prefix, the one minted in the earlier build has the strictly smaller
\* suffix, and no id is minted by two builds: a suffix used under a prefix is
\* never issued again, also when its clinic has become INACTIVE and builds
\* of other years ran in between.
C21_MonotonicAcrossBuilds ==
    \A p, q \in minted_in :
        /\ p[1] = q[1] => p[2] = q[2]
        /\ (PrefixOfId(p[1]) = PrefixOfId(q[1]) /\ p[2] < q[2])
              => SuffixOfId(p[1]) < SuffixOfId(q[1])

\* An id is minted in the first build; the second build runs under another
\* year and mints too; the third build is of the first year again, finds the
\* first clinic INACTIVE and mints the next suffix.
C21_Witness ==
    /\ pc = "done"
    /\ \E p, q, r \in minted_in :
          /\ p[2] = 1 /\ r[2] = 2 /\ q[2] = 3
          /\ PrefixOfId(p[1]) = PrefixOfId(q[1])
          /\ PrefixOfId(r[1]) # PrefixOfId(p[1])
          /\ RowOfId(df_next, p[1]).status = "INACTIVE"
          /\ SuffixOfId(q[1]) = SuffixOfId(p[1]) + 1

----------------------------------------------------------------------------
(* Frame conditions of update_id_map. *)

\* C22: frame of deactivation.  For a record of existing_df whose name is
\* not in the input, update_id_map changes nothing but the status:
\* clinic_id, clinic_name, first_seen_at, last_seen_at, address, phone,
\* director and homepage are in the next snapshot what they were.
C22_FrameOfDeactivation ==
    HasResult =>
       \A i \in 1..Len(df_prev.rows) :
          df_prev.rows[i].clinic_name \notin InputNames =>
             /\ df_next.rows[i].status = "INACTIVE"
             /\ df_next.rows[i].clinic_id = df_prev.rows[i].clinic_id
             /\ df_next.rows[i].clinic_name = df_prev.rows[i].clinic_name
             /\ df_next.rows[i].first_seen_at = df_prev.rows[i].first_seen_at
             /\ df_next.rows[i].last_seen_at = df_prev.rows[i].last_seen_at
             /\ df_next.rows[i].address = df_prev.rows[i].address
             /\ df_next.rows[i].phone = df_prev.rows[i].phone
             /\ df_next.rows[i].director = df_prev.rows[i].director
             /\ df_next.rows[i].homepage = df_prev.rows[i].homepage

\* An ACTIVE record with stored metadata has left the roster.
C22_Witness ==
    /\ HasResult
    /\ \E i \in 1..Len(df_prev.rows) :
          /\ df_prev.rows[i].clinic_name \notin InputNames
          /\ df_prev.rows[i].status = "ACTIVE"
          /\ df_prev.rows[i].address # <<>>
          /\ df_prev.rows[i].last_seen_at < clock
          /\ df_next.rows[i].status = "INACTIVE"

----------------------------------------------------------------------------
(* The plan of a build against its reconciliation (Spec). *)

ChangesOfType(type) ==
    {changes[i].clinic_id : i \in {k \in 1..Len(changes) : changes[k].change_type = type}}

\* The ids of existing_df with the given status whose name is, or is not,
\* in the input of the build.
PreviousIds(status, listed) ==
    {df_prev.rows[i].clinic_id :
        i \in {k \in 1..Len(df_prev.rows) :
                 /\ df_prev.rows[k].status = status
                 /\ (df_prev.rows[k].clinic_name \in InputNames) = listed}}

\* C23: end-to-end change classification.  build_changes applied to
\* existing_df and the snapshot update_id_map computed from it classifies as
\* NEW exactly the ids of new_ids, as REACTIVATED exactly the ids whose
\* previous status was INACTIVE and whose name is in the input, as
\* DEACTIVATED exactly the ids whose previous status was ACTIVE and whose
\* name is not in the input, and every other id as UNCHANGED.
C23_EndToEndClassification ==
    pc = "done" =>
        /\ ChangesOfType("NEW") = Range(new_ids)
        /\ ChangesOfType("REACTIVATED") = PreviousIds("INACTIVE", TRUE)
        /\ ChangesOfType("DEACTIVATED") = PreviousIds("ACTIVE", FALSE)
        /\ ChangesOfType("UNCHANGED")
              = PreviousIds("ACTIVE", TRUE) \cup PreviousIds("INACTIVE", FALSE)
        /\ Len(changes) = Len(df_next.rows)
        /\ \A i \in 1..Len(changes) :
              changes[i].change_type \in {"NEW", "REACTIVATED", "DEACTIVATED", "UNCHANGED"}

\* One build mints a clinic, brings one back and loses one.
C23_Witness ==
    /\ pc = "done"
    /\ ChangesOfType("NEW") # {}
    /\ ChangesOfType("REACTIVATED") # {}
    /\ ChangesOfType("DEACTIVATED") # {}

\* The builds whose plan has been computed.
Planned(build) == build < builds \/ (build = builds /\ pc \in {"done", "idle", "failed"})

\* C26: NEW exactly once.  Over the completed builds chained through
\* id_map.csv, a clinic_id is classified NEW by build_changes in exactly one
\* build, the build in which update_id_map minted it; every later build
\* classifies it as DEACTIVATED, REACTIVATED or UNCHANGED.
C26_NewExactlyOnce ==
    /\ \A r \in reported : (r[3] = "NEW") <=> (<<r[1], r[2]>> \in minted_in)
    /\ \A m \in minted_in :
          \A build \in m[2]..builds :
             Planned(build) =>
                LET types == {r[3] : r \in {x \in reported : x[1] = m[1] /\ x[2] = build}}
                IN /\ Cardinality(types) = 1
                   /\ build = m[2] => types = {"NEW"}
                   /\ build > m[2] =>
                         types \subseteq {"DEACTIVATED", "REACTIVATED", "UNCHANGED"}

\* An id was NEW in the first build, DEACTIVATED in the second and
\* REACTIVATED in the third.
C26_Witness ==
    /\ pc = "done"
    /\ \E m \in minted_in :
          /\ <<m[1], 1, "NEW">> \in reported
          /\ <<m[1], 2, "DEACTIVATED">> \in reported
          /\ <<m[1], 3, "REACTIVATED">> \in reported

----------------------------------------------------------------------------
(* Minting on stores edited by hand (SpecCalls). *)

\* C28: minted ids never collide with stored ids.  For every existing_df
\* update_id_map accepts (unpadded suffixes, suffixes above 9999, ids with
\* whitespace around them, ids of other prefixes and texts that are no id
\* included) every minted clinic_id differs from every clinic_id of
\* existing_df, as stored and with the whitespace removed, and from every
\* other id minted in the build.
C28_MintedIdsNeverCollide ==
    pc = "updated" =>
        \A k \in 1..Len(new_ids) :
           /\ \A i \in 1..Len(arg.rows) :
                 /\ new_ids[k] # arg.rows[i].clinic_id
                 /\ new_ids[k] # strip(arg.rows[i].clinic_id)
           /\ \A j \in 1..Len(new_ids) : j # k => new_ids[j] # new_ids[k]

\* Two ids are minted on a store that holds SJ25-7 and " SJ25-0003 ".
C28_Witness ==
    /\ pc = "updated"
    /\ arg = FrameOdd
    /\ new_ids = << <<"S", "J", "2", "5", "-", "0", "0", "0", "8">>,
                    <<"S", "J", "2", "5", "-", "0", "0", "0", "9">> >>

----------------------------------------------------------------------------
(* update_id_map and its existing_df argument (SpecCalls). *)

\* C30: update_id_map does not modify the records of existing_df.  After the
\* call, whether it returned or raised, existing_df has the rows it had, with
\* every cell as it was, the status included; the only change is that an
\* optional column the frame lacked has been added with "" in every row, and
\* not even that when the call raised before _ensure_columns added it.  The
\* plan computed from existing_df afterwards sees the previous statuses.
C30_ExistingFrameUntouched ==
    UpdateCalled =>
        IF error \in {"Duplicate clinic names provided to update_id_map",
                      "id_map is missing required columns"}
        THEN df_prev = arg
        ELSE /\ df_prev.columns = arg.columns \cup EXTRA_COLUMNS
             /\ RowsFilledFrom(df_prev.rows, arg)

\* The store had no phone column and B was INACTIVE; the call has returned a
\* snapshot where B is ACTIVE, and existing_df still says INACTIVE.
C30_Witness ==
    /\ pc = "updated"
    /\ arg = DropColumn(FrameAB, "phone")
    /\ df_next.rows[2].status = "ACTIVE"
    /\ df_prev.rows[2].status = "INACTIVE"
    /\ df_prev.rows[2].phone = <<>>
    /\ df_prev.rows[2].address = <<"w">>

----------------------------------------------------------------------------
(* Running a build twice (Spec). *)

\* update_id_map on the same input and year, with the snapshot of this build
\* as existing_df, one tick later.
SecondRun == update_id_map(clinic_records, year, df_next, clock + 1)

\* C29: idempotent rebuild.  A second update_id_map with the same input and
\* year on the snapshot of the first mints nothing and adds no record; every
\* record keeps all its fields but last_seen_at, which moves to the time of
\* the second run for the ACTIVE records and stays for the others; and
\* build_changes between the two snapshots has one UNCHANGED record for each
\* record of the snapshot.
C29_IdempotentRebuild ==
    pc = "done" =>
        \A second \in {SecondRun} :
           /\ second.ok
           /\ second.new_ids = <<>>
           /\ Len(second.data.rows) = Len(df_next.rows)
           /\ \A i \in 1..Len(df_next.rows) :
                 /\ [second.data.rows[i] EXCEPT !.last_seen_at = df_next.rows[i].last_seen_at]
                       = df_next.rows[i]
                 /\ second.data.rows[i].last_seen_at
                       = IF df_next.rows[i].status = "ACTIVE"
                         THEN clock + 1 ELSE df_next.rows[i].last_seen_at
           /\ \A again \in {build_changes(df_next, second.data)} :
                 /\ Len(again) = Len(df_next.rows)
                 /\ \A k \in 1..Len(again) : again[k].change_type = "UNCHANGED"

\* The first run minted an id and deactivated a record; the second run moves
\* a last_seen_at.
C29_Witness ==
    /\ pc = "done"
    /\ new_ids # <<>>
    /\ \E i \in 1..Len(df_next.rows) : df_next.rows[i].status = "INACTIVE"
    /\ \E c \in Range(changes) : c.change_type = "REACTIVATED"
    /\ SecondRun.ok
    /\ SecondRun.data # df_next

----------------------------------------------------------------------------
(* The steps after the plan (SpecOutbox). *)

\* The build is at or after the step.
Rendered == pc \in {"rendered", "delivered", "finished"}

OutboxMade == pc = "finished" /\ outbox_result.made

ChangeTypesOf(clinic_id) ==
    {changes[i].change_type : i \in {k \in 1..Len(changes) : changes[k].clinic_id = clinic_id}}

\* C24: the outbox holds the changed ACTIVE clinics only.  Every row of the
\* sendlist create_outbox writes, and every ZIP, is of a clinic whose
\* ChangeRecord of this build is NEW or REACTIVATED, whose mapping record is
\* ACTIVE and whose delivery folder has qr.png, qr_named.png and info.txt; no
\* clinic that is UNCHANGED or DEACTIVATED is in the sendlist; zips_created
\* is the number of rows and never exceeds targets, the number of NEW and
\* REACTIVATED changes.
C24_OutboxOnlyChangedActive ==
    OutboxMade =>
        /\ \A k \in 1..Len(output.sendlist) :
              LET row == output.sendlist[k]
              IN /\ ChangeTypesOf(row.clinic_id) = {row.change_type}
                 /\ row.change_type \in {"NEW", "REACTIVATED"}
                 /\ \E i \in 1..Len(mapping_records) :
                       /\ mapping_records[i].clinic_id = row.clinic_id
                       /\ mapping_records[i].clinic_name = row.clinic_name
                       /\ mapping_records[i].status = "ACTIVE"
                       /\ row.zip_path = DeliveryDir(mapping_records[i])
                       /\ \A name \in {"qr.png", "qr_named.png", "info.txt"} :
                             <<DeliveryDir(mapping_records[i]), name>> \in output.delivery
        /\ output.zips = {output.sendlist[z].zip_path : z \in 1..Len(output.sendlist)}
        /\ \A c \in 1..Len(changes) :
              changes[c].change_type \in {"UNCHANGED", "DEACTIVATED"} =>
                 \A s \in 1..Len(output.sendlist) :
                    output.sendlist[s].clinic_id # changes[c].clinic_id
        /\ outbox_result.zips_created = Len(output.sendlist)
        /\ outbox_result.targets
              = Cardinality({t \in 1..Len(changes) :
                               changes[t].change_type \in {"NEW", "REACTIVATED"}})
        /\ outbox_result.zips_created <= outbox_result.targets

\* A build without named images has two targets: the reactivated clinic,
\* whose folder has the named image of an earlier build, is in the sendlist;
\* the new one, whose folder has none, is skipped.
C24_Witness ==
    /\ OutboxMade
    /\ ~cfg.generate_qr_named
    /\ outbox_result.targets = 2
    /\ outbox_result.zips_created = 1
    /\ output.sendlist[1].change_type = "REACTIVATED"
    /\ \E i \in 1..Len(changes) : changes[i].change_type = "NEW"

\* The mapping records of the ACTIVE clinics of the build.
ActiveRecords ==
    {mapping_records[i] : i \in {k \in 1..Len(mapping_records) :
                                   mapping_records[k].status = "ACTIVE"}}

\* create_delivery_packages is called in this build.
DeliveryCalled == cfg.generate_delivery /\ ~skip_qr

\* C25: rendering and delivery follow the status.  After the render loop
\* there is a landing page and a mapping.csv row for every record of the next
\* snapshot, in its order, and a QR image has been made for a record exactly
\* when its status is ACTIVE and --skip-qr is not set.  A step of
\* create_delivery_packages adds files to the folders of ACTIVE records
\* only, every ACTIVE record has its folder afterwards, and the function is
\* never called with an ACTIVE record whose qr_path is empty, so that it never
\* raises for one.
C25_RenderingFollowsStatus ==
    /\ [](Rendered =>
            /\ Len(mapping_records) = Len(df_next.rows)
            /\ output.mapping = mapping_records
            /\ \A i \in 1..Len(df_next.rows) :
                  /\ mapping_records[i].clinic_id = df_next.rows[i].clinic_id
                  /\ mapping_records[i].status = df_next.rows[i].status
                  /\ mapping_records[i].page_path \in output.pages
                  /\ (mapping_records[i].qr_path # <<>>)
                        <=> (df_next.rows[i].status = "ACTIVE" /\ ~skip_qr)
                  /\ mapping_records[i].qr_path # <<>> =>
                        /\ mapping_records[i].qr_path = QrPath(df_next.rows[i].clinic_id)
                        /\ mapping_records[i].qr_path \in output.qr
            /\ (pc = "rendered" /\ DeliveryCalled) =>
                  \A r \in ActiveRecords : r.qr_path # <<>>
            /\ (pc \in {"delivered", "finished"} /\ DeliveryCalled) =>
                  \A r \in ActiveRecords :
                     {<<DeliveryDir(r), "qr.png">>, <<DeliveryDir(r), "info.txt">>}
                        \subseteq output.delivery)
    /\ [](error # "Missing qr_path for ACTIVE clinic")
    /\ [][pc = "rendered" =>
            \A file \in output'.delivery \ output.delivery :
               /\ DeliveryCalled
               /\ \E r \in ActiveRecords : file[1] = DeliveryDir(r)]_vars

\* A build has delivered the folder of an ACTIVE clinic; the snapshot also has
\* an INACTIVE clinic, which has a page and a mapping row but no folder.
C25_Witness ==
    /\ pc = "delivered"
    /\ DeliveryCalled
    /\ Len(mapping_records) = 2
    /\ mapping_records[1].status = "INACTIVE"
    /\ mapping_records[1].page_path \in output.pages
    /\ mapping_records[1].qr_path = <<>>
    /\ \A file \in output.delivery : file[1] # DeliveryDir(mapping_records[1])
    /\ mapping_records[2].status = "ACTIVE"
    /\ <<DeliveryDir(mapping_records[2]), "qr_named.png">> \in output.delivery

\* The plan of the current build has been made.
PlanMade == pc \in {"done", "rendered", "delivered", "finished"}

\* The clinic was stored as ACTIVE when the build started and is in the
\* roster of the build.
StaysActive(clinic_id) ==
    \E i \in 1..Len(file_before.rows) :
       /\ file_before.rows[i].clinic_id = clinic_id
       /\ file_before.rows[i].status = "ACTIVE"
       /\ file_before.rows[i].clinic_name \in InputNames

\* C27: outbox targets are not carried over.  A clinic is in the sendlist of
\* a build only if the plan of that very build reports it NEW or REACTIVATED.
\* A clinic that was stored as ACTIVE by an earlier build, whether or not
\* that build ran with --skip-qr or ended before its outbox was written, and
\* that is still in the roster, is UNCHANGED in the plan and is not in the
\* sendlist of the build.
C27_TargetsNotCarriedOver ==
    /\ \A s \in sent :
          \E type \in {"NEW", "REACTIVATED"} : <<s[1], s[2], type>> \in reported
    /\ PlanMade =>
          \A i \in 1..Len(changes) :
             StaysActive(changes[i].clinic_id) =>
                /\ changes[i].change_type = "UNCHANGED"
                /\ <<changes[i].clinic_id, builds>> \notin sent

\* The first build minted an id and ended before its plan; the second, with
\* --skip-qr, found another clinic NEW; the third wrote an outbox with no
\* target: neither clinic was ever in a sendlist.
C27_Witness ==
    /\ OutboxMade
    /\ builds = 3
    /\ Len(changes) = 2
    /\ outbox_result.targets = 0
    /\ output.sendlist = <<>>
    /\ sent = {}
    /\ \E m \in minted_in : m[2] = 1 /\ \A r \in reported : r[2] # 1
    /\ \E r \in reported : r[2] = 2 /\ r[3] = "NEW"
    /\ \A i \in 1..Len(changes) : StaysActive(changes[i].clinic_id)

====
